---- MODULE Spec2Model ----
(***************************************************************************)
(* Frame pipeline of VulkanRenderer (src/src/vulkan_renderer.cpp) and the  *)
(* swap-chain / one-shot command services of VulkanContext                 *)
(* (src/vulkan_context.cpp), with the GPU queue and the presentation       *)
(* engine as asynchronous processes.                                       *)
(***************************************************************************)
EXTENDS Integers, Sequences, FiniteSets, TLC

\* ------------------------------------------------------------------ bounds
MaxFrames == 3        \* drawFrame calls explored
MaxImages == 3        \* largest swap-chain image count the surface offers
MaxFbSize == 1        \* framebuffer sizes 0 (minimized) .. MaxFbSize

MaxOps == 2           \* one-shot command operations run one after another
MaxMemTypes == 2      \* memoryTypeCount of the physical device
MaxDevices == 2       \* physical devices the instance enumerates
MaxFamilies == 2      \* queue families of a physical device

\* ------------------------------------------------------- program constants
MAX_FRAMES_IN_FLIGHT == 2

Slots == 0 .. (MAX_FRAMES_IN_FLIGHT - 1)
ImageCounts == {1, MaxImages}
FbSizes == 0 .. MaxFbSize

AcquireResults == {"success", "suboptimal", "out_of_date", "error"}
PresentResults == {"success", "suboptimal", "out_of_date", "error"}

VARIABLES
    pc,                          \* position of the CPU thread
    current_frame_,              \* frame-in-flight slot counter
    framebuffer_resized_,        \* resize flag
    image_index,                 \* local of drawFrame: index returned by acquire
    in_flight_fences_,           \* slot -> signaled?
    image_available_semaphores_, \* slot -> [st, frame]
    render_finished_semaphores_, \* slot -> [st, frame]
    command_buffers_,            \* slot -> [st, fb]
    queue,                       \* outstanding graphics-queue submissions
    presentQ,                    \* outstanding present requests, in issue order
    images,                      \* swap-chain image -> [st, owner, rendered]
    swap_chain_,                 \* [live, count, extent]
    swap_chain_image_views_,     \* number of live swap-chain image views
    swap_chain_framebuffers_,    \* [count, extent] of live framebuffers
    depth_live,                  \* depth image/view/memory live?
    pipelines_live,              \* graphics (and skybox) pipelines live?
    sync_live,                   \* per-slot semaphores and fences live?
    overlay_live,                \* ui overlay live?
    fb_size,                     \* window framebuffer size (0 = minimized)
    event_pending,               \* a window resize event awaits delivery
    ctx_size,                    \* locals width/height of VulkanContext::recreateSwapChain
    recreate_from,               \* caller position of recreateSwapChain
    frameNo,                     \* number of the current drawFrame call
    start_frame,                 \* current_frame_ at entry of the drawFrame call
    acq_result,                  \* branch this call's acquire took
    pres_result,                 \* result of this call's present
    trace,                       \* steps performed by the current drawFrame call
    u_pc,                        \* position inside a one-shot command operation
    u_op,                        \* the operation in progress
    pool_cbs,                    \* one-shot command buffers allocated from command_pool_
    cb_state,                    \* state of the one-shot command buffer
    gpu_oneshot,                 \* one-shot work on the graphics queue
    recorded,                    \* command recorded into the one-shot command buffer
    ops_done,                    \* operations finished so far
    mem_types,                   \* memoryTypes[i].propertyFlags of the physical device
    type_filter,                 \* memoryTypeBits of the resource being created
    properties,                  \* requested vk::MemoryPropertyFlags
    found,                       \* what findMemoryType gave: an index or NoType
    b_pc,                        \* position inside createBuffer
    b_target,                    \* the (buffer, memory) pair createBuffer fills
    bufs,                        \* pair name -> [buffer, memory, bound]
    i_pc,                        \* position inside an image creation
    image_,                      \* [image, memory, bound, layout, copies, view, sampler]
    up_kind,                     \* upload operation in progress
    up_ix,                       \* index of its next step
    up_state,                    \* "idle", "run", "true", "false" or "thrown"
    swap_chain_image_format_,    \* format of the swap-chain images
    rc_cur,                      \* outcome of the recreateSwapChain call in progress
    rc_prev,                     \* outcome of the previous recreateSwapChain call
    init_pc,                     \* position inside initialization and teardown
    ci_steps,                    \* steps VulkanContext::initialize has attempted
    ci_ret,                      \* what VulkanContext::initialize gave
    ri_steps,                    \* steps VulkanRenderer::initialize has attempted
    ri_ret,                      \* what VulkanRenderer::initialize gave
    vk_ctx,                      \* members of the VulkanContext
    rnd,                         \* members of the VulkanRenderer
    dev_n,                       \* devices.size() in pickPhysicalDevice
    dev_i,                       \* devices examined so far by its loop
    dev_cur,                     \* the device examined last
    examined,                    \* isDeviceSuitable of each examined device
    faults,                      \* invalid uses made by the teardown
    td_ix,                       \* teardown steps passed so far
    destroyed,                   \* objects destroyed by the teardown, in order
    pipeline_layouts             \* live vk::PipelineLayout objects (followed
                                 \* through the recreations of SpecReplace only)

vars == << pc, current_frame_, framebuffer_resized_, image_index,
           in_flight_fences_, image_available_semaphores_,
           render_finished_semaphores_, command_buffers_, queue, presentQ,
           images, swap_chain_, swap_chain_image_views_,
           swap_chain_framebuffers_, depth_live, pipelines_live, sync_live,
           overlay_live, fb_size, event_pending, ctx_size, recreate_from,
           frameNo, start_frame, acq_result, pres_result, trace,
           u_pc, u_op, pool_cbs, cb_state, gpu_oneshot, recorded, ops_done,
           mem_types, type_filter, properties, found, b_pc, b_target, bufs,
           i_pc, image_, up_kind, up_ix, up_state,
           swap_chain_image_format_, rc_cur, rc_prev,
           init_pc, ci_steps, ci_ret, ri_steps, ri_ret, vk_ctx, rnd,
           dev_n, dev_i, dev_cur, examined, faults, td_ix, destroyed,
           pipeline_layouts >>

surfVars == << swap_chain_image_format_, rc_cur, rc_prev >>
initVars == << init_pc, ci_steps, ci_ret, ri_steps, ri_ret, vk_ctx, rnd,
               dev_n, dev_i, dev_cur, examined, faults, td_ix, destroyed,
               pipeline_layouts >>

loopVars == << surfVars, pc, current_frame_, framebuffer_resized_, image_index,
               in_flight_fences_, image_available_semaphores_,
               render_finished_semaphores_, command_buffers_, queue, presentQ,
               images, swap_chain_, swap_chain_image_views_,
               swap_chain_framebuffers_, depth_live, pipelines_live, sync_live,
               overlay_live, fb_size, event_pending, ctx_size, recreate_from,
               frameNo, start_frame, acq_result, pres_result, trace >>
frameVars == << loopVars, initVars >>
oneShotVars == << u_pc, u_op, pool_cbs, cb_state, gpu_oneshot, recorded, ops_done >>
memVars == << mem_types, type_filter, properties, found >>
bufVars == << b_pc, b_target, bufs >>
imgVars == << i_pc, image_ >>
xferVars == << up_kind, up_ix, up_state >>
upVars == << oneShotVars, memVars, bufVars, imgVars, xferVars >>

gpuVars == << in_flight_fences_, image_available_semaphores_,
              render_finished_semaphores_, queue, presentQ, images >>
resVars == << swap_chain_, swap_chain_image_views_, swap_chain_framebuffers_,
              depth_live, pipelines_live, sync_live, overlay_live >>
envVars == << fb_size, event_pending >>
callVars == << frameNo, start_frame, acq_result, pres_result, trace >>

Unsignaled == [st |-> "unsignaled", frame |-> 0]
FreeImage == [st |-> "pe", owner |-> 0, rendered |-> FALSE]
FreshImages(n) == [i \in 0 .. (n - 1) |-> FreeImage]

RemoveAt(s, k) == [j \in 1 .. (Len(s) - 1) |-> IF j < k THEN s[j] ELSE s[j + 1]]

DeviceIdle == queue = << >> /\ presentQ = << >>

\* ------------------------------------------------------------ construction
\* State after VulkanRenderer::initialize and the loads of main(): the swap
\* chain and everything built on it exist, fences are created signaled,
\* semaphores unsignaled, command buffers allocated and never recorded.
NoOp == [kind |-> "none", old |-> "none", new |-> "none"]
NoBarrier == [srcAccess |-> "none", dstAccess |-> "none",
              srcStage |-> "none", dstStage |-> "none"]
NoCommand == [cmd |-> "none", barrier |-> NoBarrier]

OneShotRest ==
    /\ u_pc = "idle"
    /\ u_op = NoOp
    /\ pool_cbs = 0
    /\ cb_state = "none"
    /\ gpu_oneshot = "idle"
    /\ recorded = NoCommand
    /\ ops_done = 0

\* vk::MemoryPropertyFlagBits the program requests.
PropertyFlagBits == {"DeviceLocal", "HostVisible", "HostCoherent"}

\* getPhysicalDevice().getMemoryProperties() of a device with one device-local
\* and one host-visible, host-coherent memory type.
DeviceMemoryTypes == << {"DeviceLocal"}, {"HostVisible", "HostCoherent"} >>

NotCalled == [called |-> FALSE, ok |-> FALSE, index |-> 0]

MemRest ==
    /\ mem_types = DeviceMemoryTypes
    /\ type_filter = 0
    /\ properties = {}
    /\ found = NotCalled

\* vk::Buffer / vk::DeviceMemory as default-constructed: null handles.
NullBuf == [buffer |-> "null", memory |-> "null", bound |-> FALSE]
BufNames == {"staging", "device"}

BufRest ==
    /\ b_pc = "idle"
    /\ b_target = "staging"
    /\ bufs = [n \in BufNames |-> NullBuf]

NullImg == [image |-> "null", memory |-> "null", bound |-> FALSE,
            layout |-> "Undefined", transitions |-> << >>, copies |-> << >>,
            view |-> FALSE, sampler |-> FALSE, descriptor |-> FALSE]

ImgRest ==
    /\ i_pc = "idle"
    /\ image_ = NullImg

\* What querySwapChainSupport can report: the image-count limits, whether the
\* surface defines currentExtent, and the surface formats in driver order.
SrgbFormat == [format |-> "B8G8R8A8Srgb", colorSpace |-> "SrgbNonlinear"]
UnormFormat == [format |-> "R8G8B8A8Unorm", colorSpace |-> "SrgbNonlinear"]
FormatLists == { << UnormFormat, SrgbFormat >>, << UnormFormat >> }
ImageCountLimits == { << 1, 1 >>, << MaxImages - 1, 0 >> }

Surfaces ==
    { [minImageCount |-> l[1], maxImageCount |-> l[2],
       currentDefined |-> d, formats |-> f] :
         l \in ImageCountLimits, d \in BOOLEAN, f \in FormatLists }

NoSurface == [minImageCount |-> 0, maxImageCount |-> 0,
              currentDefined |-> FALSE, formats |-> << >>]

NoOutcome == [valid |-> FALSE, result |-> FALSE, driver_ok |-> TRUE,
              support |-> NoSurface, size |-> 0,
              count |-> 0, format |-> "Undefined", extent |-> 0]

\* A queue family: its graphics flag and whether getSurfaceSupportKHR reports
\* present support to the surface.
QueueFamilies == [graphics : BOOLEAN, present : BOOLEAN]
FamilyLists == UNION { [1 .. n -> QueueFamilies] : n \in 1 .. MaxFamilies }

\* A physical device as the suitability test sees it: its queue families in
\* driver order, whether it offers every required extension, and whether its
\* surface format and present mode lists are non-empty.
PhysicalDevices ==
    [queue_families : FamilyLists, extensions : BOOLEAN,
     formats : BOOLEAN, present_modes : BOOLEAN]

\* A null vk::PhysicalDevice.
NoDevice == [queue_families |-> << >>, extensions |-> FALSE,
             formats |-> FALSE, present_modes |-> FALSE]

\* std::optional<uint32_t> without a value.
NoIndex == -1

\* The members of a VulkanContext after its constructor: null handles.
NullContext ==
    [enable_validation_layers_ |-> FALSE, instance_ |-> FALSE,
     debug_messenger_ |-> FALSE, surface_ |-> FALSE,
     physical_device_ |-> NoDevice, device_ |-> FALSE,
     graphics_queue_ |-> NoIndex, present_queue_ |-> NoIndex,
     swap_chain_ |-> FALSE, image_views |-> FALSE,
     command_pool_ |-> FALSE, pool_family |-> NoIndex]

\* The members of a VulkanRenderer after its constructor: null handles, empty
\* vectors (sync_size is the size of the three per-slot vectors).
NullRenderer ==
    [window_ |-> FALSE, context_ |-> FALSE, render_pass_ |-> FALSE,
     shader_ |-> FALSE, material_ |-> FALSE, pipeline |-> FALSE,
     depth |-> FALSE, framebuffers |-> FALSE, command_buffers |-> FALSE,
     sync_size |-> 0, sync |-> FALSE, ui_overlay_ |-> FALSE,
     mesh_ |-> FALSE, texture_ |-> FALSE, skybox_ |-> FALSE,
     skybox_shader_ |-> FALSE, skybox_pipeline |-> FALSE]

\* The value of the context, renderer and candidate-device records in the
\* specifications of the running renderer, which start after run() has
\* initialized both objects and do not follow their members one by one.
Initialized == "initialized"

\* Initialization and teardown are not in progress: the renderer is
\* initialized and createDefaultSkyBox has run, so the pipeline layout of the
\* mesh and that of the skybox exist.
InitRest ==
    /\ init_pc = "off"
    /\ ci_steps = << >>
    /\ ci_ret = "none"
    /\ ri_steps = << >>
    /\ ri_ret = "none"
    /\ vk_ctx = Initialized
    /\ rnd = Initialized
    /\ dev_n = 0
    /\ dev_i = 0
    /\ dev_cur = Initialized
    /\ examined = << >>
    /\ faults = {}
    /\ td_ix = 0
    /\ destroyed = << >>
    /\ pipeline_layouts = 2

\* The bookkeeping of recreateSwapChain calls when no call has been made
\* since initialization.
SurfRest ==
    /\ swap_chain_image_format_ = "B8G8R8A8Srgb"
    /\ rc_cur = NoOutcome
    /\ rc_prev = NoOutcome

XferRest ==
    /\ up_kind = "none"
    /\ up_ix = 0
    /\ up_state = "idle"

UploadRest == OneShotRest /\ MemRest /\ BufRest /\ ImgRest /\ XferRest

FrameStart(n, sz) ==
    /\ pc = "poll"
    /\ current_frame_ = 0
    /\ framebuffer_resized_ = FALSE
    /\ image_index = 0
    /\ in_flight_fences_ = [s \in Slots |-> TRUE]
    /\ image_available_semaphores_ = [s \in Slots |-> Unsignaled]
    /\ render_finished_semaphores_ = [s \in Slots |-> Unsignaled]
    /\ command_buffers_ = [s \in Slots |-> [st |-> "initial", fb |-> 0]]
    /\ queue = << >>
    /\ presentQ = << >>
    /\ images = FreshImages(n)
    /\ swap_chain_ = [live |-> TRUE, count |-> n, extent |-> sz]
    /\ swap_chain_image_views_ = n
    /\ swap_chain_framebuffers_ = [count |-> n, extent |-> sz]
    /\ fb_size = sz
    /\ depth_live = TRUE
    /\ pipelines_live = TRUE
    /\ sync_live = TRUE
    /\ overlay_live = TRUE
    /\ event_pending = FALSE
    /\ ctx_size = 0
    /\ recreate_from = "none"
    /\ frameNo = 0
    /\ start_frame = 0
    /\ acq_result = "none"
    /\ pres_result = "none"
    /\ trace = << >>

\* The upload and recreation bookkeeping in the specifications of the running
\* renderer: the loads of main() have returned and no one-shot command is in
\* progress; the records of those subsystems are not followed field by field.
RunRest ==
    /\ u_pc = "idle"
    /\ u_op = Initialized
    /\ pool_cbs = 0
    /\ cb_state = "none"
    /\ gpu_oneshot = "idle"
    /\ recorded = Initialized
    /\ ops_done = 0
    /\ mem_types = Initialized
    /\ type_filter = 0
    /\ properties = {}
    /\ found = Initialized
    /\ b_pc = "idle"
    /\ b_target = "staging"
    /\ bufs = Initialized
    /\ i_pc = "idle"
    /\ image_ = Initialized
    /\ XferRest
    /\ swap_chain_image_format_ = "B8G8R8A8Srgb"
    /\ rc_cur = Initialized
    /\ rc_prev = Initialized

Init ==
    /\ \E n \in ImageCounts, sz \in FbSizes \ {0} : FrameStart(n, sz)
    /\ RunRest
    /\ InitRest

\* ------------------------------------------------------------- environment
\* The window system changes the framebuffer size and queues a resize event.
WindowResized(sz) ==
    /\ pc \notin {"done"}
    /\ sz # fb_size
    /\ fb_size' = sz
    /\ event_pending' = TRUE
    /\ UNCHANGED << pc, current_frame_, framebuffer_resized_, image_index,
                    command_buffers_, ctx_size, recreate_from >>
    /\ UNCHANGED << gpuVars, resVars, callVars >>
    /\ UNCHANGED << upVars, surfVars, initVars >>

framebufferResizeCallbackRecreates ==
    /\ pc = "poll"
    /\ event_pending
    /\ event_pending' = FALSE
    /\ framebuffer_resized_' = TRUE
    /\ swap_chain_framebuffers_' = [count |-> 0, extent |-> fb_size]
    /\ UNCHANGED << pc, current_frame_, image_index, command_buffers_,
                    ctx_size, recreate_from, fb_size, swap_chain_,
                    swap_chain_image_views_, depth_live, pipelines_live,
                    sync_live, overlay_live >>
    /\ UNCHANGED << gpuVars, callVars >>
    /\ UNCHANGED << upVars, surfVars, initVars >>

\* VulkanRenderer::framebufferResizeCallback, run by glfwPollEvents() at the
\* top of the mainLoop body.
framebufferResizeCallback ==
    /\ pc = "poll"
    /\ event_pending
    /\ event_pending' = FALSE
    /\ framebuffer_resized_' = TRUE
    /\ UNCHANGED << pc, current_frame_, image_index, command_buffers_,
                    ctx_size, recreate_from, fb_size >>
    /\ UNCHANGED << gpuVars, resVars, callVars >>
    /\ UNCHANGED << upVars, surfVars, initVars >>

\* ---------------------------------------------------------------- mainLoop
\* One pass of the while loop up to the call of drawFrame.
MainLoopIter ==
    /\ pc = "poll"
    /\ frameNo < MaxFrames
    /\ pc' = "wait_fence"
    /\ frameNo' = frameNo + 1
    /\ start_frame' = current_frame_
    /\ acq_result' = "none"
    /\ pres_result' = "none"
    /\ trace' = << >>
    /\ UNCHANGED << current_frame_, framebuffer_resized_, image_index,
                    command_buffers_, ctx_size, recreate_from >>
    /\ UNCHANGED << gpuVars, resVars, envVars >>
    /\ UNCHANGED << upVars, surfVars, initVars >>

\* glfwWindowShouldClose became true: leave the loop (the record of the last
\* drawFrame call ends here).
MainLoopExit ==
    /\ pc = "poll"
    /\ pc' = "exit_waitidle"
    /\ start_frame' = 0
    /\ acq_result' = "none"
    /\ pres_result' = "none"
    /\ trace' = << >>
    /\ UNCHANGED << current_frame_, framebuffer_resized_, image_index,
                    command_buffers_, ctx_size, recreate_from, frameNo >>
    /\ UNCHANGED << gpuVars, resVars, envVars >>
    /\ UNCHANGED << upVars, surfVars, initVars >>

\* --------------------------------------------------------------- drawFrame
CpuStep(to, step) ==
    /\ pc' = to
    /\ trace' = Append(trace, step)

WaitForFencesTimedOut == TRUE

\* What waitForFences(1, &in_flight_fences_[current_frame_], VK_TRUE, UINT64_MAX)
\* blocks on.
WaitForFencesDone == in_flight_fences_[current_frame_]

\* device.waitForFences(in_flight_fences_[current_frame_], UINT64_MAX)
WaitForFences ==
    /\ pc = "wait_fence"
    /\ WaitForFencesDone
    /\ CpuStep("acquire", "wait")
    /\ UNCHANGED << current_frame_, framebuffer_resized_, image_index,
                    command_buffers_, ctx_size, recreate_from, frameNo,
                    start_frame, acq_result, pres_result >>
    /\ UNCHANGED << gpuVars, resVars, envVars >>
    /\ UNCHANGED << upVars, surfVars, initVars >>

AcquireSemaphore == current_frame_

\* acquireNextImageKHR succeeded (success or suboptimal) with image img; the
\* two results pass the same test and the value is not read again.
AcquireOk(result, img) ==
    /\ pc = "acquire"
    /\ result \in {"success", "suboptimal"}
    /\ swap_chain_.live
    /\ img \in DOMAIN images
    /\ images[img].st = "pe"
    /\ image_index' = img
    /\ images' = [images EXCEPT ![img] =
                     [st |-> "acq_pending", owner |-> frameNo, rendered |-> FALSE]]
    /\ image_available_semaphores_' =
          [image_available_semaphores_ EXCEPT ![AcquireSemaphore] =
              [st |-> "pending", frame |-> frameNo]]
    /\ acq_result' = "acquired"
    /\ CpuStep("update_uniforms", "acquire")
    /\ UNCHANGED << current_frame_, framebuffer_resized_, command_buffers_,
                    ctx_size, recreate_from, frameNo, start_frame, pres_result,
                    in_flight_fences_,
                    render_finished_semaphores_, queue, presentQ >>
    /\ UNCHANGED << resVars, envVars >>
    /\ UNCHANGED << upVars, surfVars, initVars >>

AcquireOutOfDateFallsThrough == "update_uniforms"

\* Where drawFrame goes when acquire reports out-of-date.
AcquireOutOfDateTarget == "r_waitidle"

\* acquireNextImageKHR reported eErrorOutOfDateKHR: recreateSwapChain(); return.
AcquireOutOfDate ==
    /\ pc = "acquire"
    /\ acq_result' = "out_of_date"
    /\ recreate_from' = "acquire"
    /\ CpuStep(AcquireOutOfDateTarget, "acquire")
    /\ UNCHANGED << current_frame_, framebuffer_resized_, image_index,
                    command_buffers_, ctx_size, frameNo, start_frame,
                    pres_result >>
    /\ UNCHANGED << gpuVars, resVars, envVars >>
    /\ UNCHANGED << upVars, surfVars, initVars >>

\* Any other acquire result: throw std::runtime_error.
AcquireError ==
    /\ pc = "acquire"
    /\ acq_result' = "error"
    /\ CpuStep("unwind", "acquire")
    /\ UNCHANGED << current_frame_, framebuffer_resized_, image_index,
                    command_buffers_, ctx_size, recreate_from, frameNo,
                    start_frame, pres_result >>
    /\ UNCHANGED << gpuVars, resVars, envVars >>
    /\ UNCHANGED << upVars, surfVars, initVars >>

\* updateUniformBuffer(); updateSkyBoxUniforms();
UpdateUniforms ==
    /\ pc = "update_uniforms"
    /\ CpuStep("reset_fence", "update_uniforms")
    /\ UNCHANGED << current_frame_, framebuffer_resized_, image_index,
                    command_buffers_, ctx_size, recreate_from, frameNo,
                    start_frame, acq_result, pres_result >>
    /\ UNCHANGED << gpuVars, resVars, envVars >>
    /\ UNCHANGED << upVars, surfVars, initVars >>

ResetFencesOfEverySlot ==
    /\ pc = "reset_fence"
    /\ in_flight_fences_' = [s \in Slots |-> FALSE]
    /\ CpuStep("reset_cmd", "fence_reset")
    /\ UNCHANGED << current_frame_, framebuffer_resized_, image_index,
                    command_buffers_, ctx_size, recreate_from, frameNo,
                    start_frame, acq_result, pres_result,
                    image_available_semaphores_, render_finished_semaphores_,
                    queue, presentQ, images >>
    /\ UNCHANGED << resVars, envVars >>
    /\ UNCHANGED << upVars, surfVars, initVars >>

\* device.resetFences(in_flight_fences_[current_frame_])
ResetFences ==
    /\ pc = "reset_fence"
    /\ in_flight_fences_' = [in_flight_fences_ EXCEPT ![current_frame_] = FALSE]
    /\ CpuStep("reset_cmd", "fence_reset")
    /\ UNCHANGED << current_frame_, framebuffer_resized_, image_index,
                    command_buffers_, ctx_size, recreate_from, frameNo,
                    start_frame, acq_result, pres_result,
                    image_available_semaphores_, render_finished_semaphores_,
                    queue, presentQ, images >>
    /\ UNCHANGED << resVars, envVars >>
    /\ UNCHANGED << upVars, surfVars, initVars >>

\* command_buffers_[current_frame_].reset()
ResetCommandBuffer ==
    /\ pc = "reset_cmd"
    /\ command_buffers_' = [command_buffers_ EXCEPT ![current_frame_] =
                               [st |-> "initial", fb |-> 0]]
    /\ CpuStep("record", "cmd_reset")
    /\ UNCHANGED << current_frame_, framebuffer_resized_, image_index,
                    ctx_size, recreate_from, frameNo, start_frame, acq_result,
                    pres_result >>
    /\ UNCHANGED << gpuVars, resVars, envVars >>
    /\ UNCHANGED << upVars, surfVars, initVars >>

RenderTargetBySlot == current_frame_

\* Index of the framebuffer the render pass is begun on.
RenderTarget == image_index

\* begin(); beginRenderPass(swap_chain_framebuffers_[image_index]); draws
RecordCommands ==
    /\ pc = "record"
    /\ command_buffers_' = [command_buffers_ EXCEPT ![current_frame_] =
                               [st |-> "recording", fb |-> RenderTarget]]
    /\ CpuStep("end_cmd", "record")
    /\ UNCHANGED << current_frame_, framebuffer_resized_, image_index,
                    ctx_size, recreate_from, frameNo, start_frame, acq_result,
                    pres_result >>
    /\ UNCHANGED << gpuVars, resVars, envVars >>
    /\ UNCHANGED << upVars, surfVars, initVars >>

\* endRenderPass(); end()
EndCommandBuffer ==
    /\ pc = "end_cmd"
    /\ command_buffers_' = [command_buffers_ EXCEPT ![current_frame_].st = "executable"]
    /\ CpuStep("submit", "end")
    /\ UNCHANGED << current_frame_, framebuffer_resized_, image_index,
                    ctx_size, recreate_from, frameNo, start_frame, acq_result,
                    pres_result >>
    /\ UNCHANGED << gpuVars, resVars, envVars >>
    /\ UNCHANGED << upVars, surfVars, initVars >>

SubmitInfoOtherSemaphore ==
    [frame |-> frameNo,
     slot |-> current_frame_,
     cb |-> current_frame_,
     fb |-> command_buffers_[current_frame_].fb,
     waitSem |-> (current_frame_ + 1) % MAX_FRAMES_IN_FLIGHT,
     waitStage |-> "ColorAttachmentOutput",
     signalSem |-> current_frame_,
     fence |-> current_frame_,
     phase |-> "queued"]

\* The vk::SubmitInfo and fence handed to getGraphicsQueue().submit.
SubmitInfo ==
    [frame |-> frameNo,
     slot |-> current_frame_,
     cb |-> current_frame_,
     fb |-> command_buffers_[current_frame_].fb,
     waitSem |-> current_frame_,
     waitStage |-> "ColorAttachmentOutput",
     signalSem |-> current_frame_,
     fence |-> current_frame_,
     phase |-> "queued"]

AfterSubmitReturns == "advance"

\* What follows the submission in drawFrame: the present request.
AfterSubmit == "present"

\* context_->getGraphicsQueue().submit(submit_info, in_flight_fences_[current_frame_])
QueueSubmit ==
    /\ pc = "submit"
    /\ queue' = Append(queue, SubmitInfo)
    /\ CpuStep(AfterSubmit, "submit")
    /\ UNCHANGED << current_frame_, framebuffer_resized_, image_index,
                    command_buffers_, ctx_size, recreate_from, frameNo,
                    start_frame, acq_result, pres_result,
                    in_flight_fences_, image_available_semaphores_,
                    render_finished_semaphores_, presentQ, images >>
    /\ UNCHANGED << resVars, envVars >>
    /\ UNCHANGED << upVars, surfVars, initVars >>

PresentInfoOtherSemaphore ==
    [frame |-> frameNo,
     slot |-> current_frame_,
     waitSem |-> (current_frame_ + 1) % MAX_FRAMES_IN_FLIGHT,
     image |-> image_index]

\* The vk::PresentInfoKHR handed to presentKHR.
PresentInfo ==
    [frame |-> frameNo,
     slot |-> current_frame_,
     waitSem |-> current_frame_,
     image |-> image_index]

PresentBranchIgnoresSuboptimal(result) ==
    IF result = "out_of_date" \/ framebuffer_resized_
    THEN "recreate"
    ELSE IF result \notin {"success", "suboptimal"} THEN "throw" ELSE "advance"

PresentBranchThrowsOutOfDate(result) ==
    IF result = "suboptimal" \/ framebuffer_resized_
    THEN "recreate"
    ELSE IF result # "success" THEN "throw" ELSE "advance"

\* Branch taken after presentKHR returned result.
PresentBranch(result) ==
    IF result \in {"out_of_date", "suboptimal"} \/ framebuffer_resized_
    THEN "recreate"
    ELSE IF result # "success" THEN "throw" ELSE "advance"

\* result = presentKHR(present_info) and the check that follows it.
QueuePresent(result) ==
    /\ pc = "present"
    /\ result \in PresentResults
    /\ presentQ' = Append(presentQ, PresentInfo)
    /\ pres_result' = result
    /\ trace' = Append(trace, "present")
    /\ CASE PresentBranch(result) = "recreate" ->
              /\ framebuffer_resized_' = FALSE
              /\ recreate_from' = "present"
              /\ pc' = "r_waitidle"
         [] PresentBranch(result) = "throw" ->
              /\ pc' = "unwind"
              /\ UNCHANGED << framebuffer_resized_, recreate_from >>
         [] OTHER ->
              /\ pc' = "advance"
              /\ UNCHANGED << framebuffer_resized_, recreate_from >>
    /\ UNCHANGED << current_frame_, image_index, command_buffers_, ctx_size,
                    frameNo, start_frame, acq_result, in_flight_fences_,
                    image_available_semaphores_, render_finished_semaphores_,
                    queue, images >>
    /\ UNCHANGED << resVars, envVars >>
    /\ UNCHANGED << upVars, surfVars, initVars >>

NextFrameStuck == current_frame_

\* (current_frame_ + 1) % MAX_FRAMES_IN_FLIGHT
NextFrame == (current_frame_ + 1) % MAX_FRAMES_IN_FLIGHT

\* current_frame_ = (current_frame_ + 1) % MAX_FRAMES_IN_FLIGHT; return (the
\* local image_index goes out of scope)
AdvanceFrame ==
    /\ pc = "advance"
    /\ current_frame_' = NextFrame
    /\ image_index' = 0
    /\ CpuStep("poll", "advance")
    /\ UNCHANGED << framebuffer_resized_, command_buffers_,
                    ctx_size, recreate_from, frameNo, start_frame, acq_result,
                    pres_result >>
    /\ UNCHANGED << gpuVars, resVars, envVars >>
    /\ UNCHANGED << upVars, surfVars, initVars >>

\* --------------------------------------- VulkanRenderer::recreateSwapChain
WaitIdleSkipped == TRUE

\* What device.waitIdle() at the top of recreateSwapChain blocks on.
WaitIdleDone == DeviceIdle

\* auto device = context_->getDevice(); device.waitIdle();
RendererWaitIdle ==
    /\ pc = "r_waitidle"
    /\ WaitIdleDone
    /\ CpuStep("r_destroy", "recreate")
    /\ UNCHANGED << current_frame_, framebuffer_resized_, image_index,
                    command_buffers_, ctx_size, recreate_from, frameNo,
                    start_frame, acq_result, pres_result >>
    /\ UNCHANGED << gpuVars, resVars, envVars >>
    /\ UNCHANGED << upVars, surfVars, initVars >>

\* destroyFramebuffer for each, destroy depth view/image/memory, destroyPipeline x2
RendererDestroy ==
    /\ pc = "r_destroy"
    /\ swap_chain_framebuffers_' = [swap_chain_framebuffers_ EXCEPT !.count = 0]
    /\ depth_live' = FALSE
    /\ pipelines_live' = FALSE
    /\ CpuStep("c_getsize", "destroy")
    /\ UNCHANGED << current_frame_, framebuffer_resized_, image_index,
                    command_buffers_, ctx_size, recreate_from, frameNo,
                    start_frame, acq_result, pres_result,
                    swap_chain_, swap_chain_image_views_, sync_live, overlay_live >>
    /\ UNCHANGED << gpuVars, envVars >>
    /\ UNCHANGED << upVars, surfVars, initVars >>

\* ---------------------------------------- VulkanContext::recreateSwapChain
SizeIsZeroNever(sz) == FALSE

\* The loop condition width == 0 || height == 0 (a size of 0 stands for a
\* framebuffer with a zero dimension).
SizeIsZero(sz) == sz = 0

\* int width = 0, height = 0; glfwGetFramebufferSize(...); while-test
ContextGetSize ==
    /\ pc = "c_getsize"
    /\ ctx_size' = fb_size
    /\ pc' = IF SizeIsZero(fb_size) THEN "c_loop_get" ELSE "c_waitidle"
    /\ UNCHANGED << current_frame_, framebuffer_resized_, image_index,
                    command_buffers_, recreate_from >>
    /\ UNCHANGED << gpuVars, resVars, envVars, callVars >>
    /\ UNCHANGED << upVars, surfVars, initVars >>

\* loop body, first statement: glfwGetFramebufferSize(window_, &width, &height)
ContextLoopGetSize ==
    /\ pc = "c_loop_get"
    /\ ctx_size' = fb_size
    /\ pc' = "c_waitevents"
    /\ UNCHANGED << current_frame_, framebuffer_resized_, image_index,
                    command_buffers_, recreate_from >>
    /\ UNCHANGED << gpuVars, resVars, envVars, callVars >>
    /\ UNCHANGED << upVars, surfVars, initVars >>

\* loop body, second statement: glfwWaitEvents() blocks until an event has
\* been processed (its callback runs), then the while-test on width/height.
ContextWaitEvents ==
    /\ pc = "c_waitevents"
    /\ event_pending
    /\ event_pending' = FALSE
    /\ framebuffer_resized_' = TRUE
    /\ pc' = IF SizeIsZero(ctx_size) THEN "c_loop_get" ELSE "c_waitidle"
    /\ UNCHANGED << current_frame_, image_index, command_buffers_, ctx_size,
                    recreate_from, fb_size >>
    /\ UNCHANGED << gpuVars, resVars, callVars >>
    /\ UNCHANGED << upVars, surfVars, initVars >>

\* device_.waitIdle()
ContextWaitIdle ==
    /\ pc = "c_waitidle"
    /\ DeviceIdle
    /\ pc' = "c_cleanup"
    /\ UNCHANGED << current_frame_, framebuffer_resized_, image_index,
                    command_buffers_, ctx_size, recreate_from >>
    /\ UNCHANGED << gpuVars, resVars, envVars, callVars >>
    /\ UNCHANGED << upVars, surfVars, initVars >>

\* VulkanContext::cleanupSwapChain
cleanupSwapChain ==
    /\ pc = "c_cleanup"
    /\ swap_chain_image_views_' = 0
    /\ swap_chain_' = [swap_chain_ EXCEPT !.live = FALSE]
    /\ pc' = "c_create"
    /\ UNCHANGED << current_frame_, framebuffer_resized_, image_index,
                    command_buffers_, ctx_size, recreate_from,
                    swap_chain_framebuffers_, depth_live, pipelines_live,
                    sync_live, overlay_live >>
    /\ UNCHANGED << gpuVars, envVars, callVars >>
    /\ UNCHANGED << upVars, surfVars, initVars >>

Clamp(v, lo, hi) == IF v < lo THEN lo ELSE IF v > hi THEN hi ELSE v

\* VulkanContext::chooseSwapExtent: the surface's currentExtent when it is
\* defined, else the framebuffer size clamped to [minImageExtent, maxImageExtent].
chooseSwapExtent(currentDefined) ==
    IF currentDefined THEN fb_size ELSE Clamp(fb_size, 1, MaxFbSize)

\* createSwapChain() && createImageViews() with n images; the function returns
\* and its locals width/height go out of scope
createSwapChain(n, currentDefined) ==
    /\ pc = "c_create"
    /\ swap_chain_' = [live |-> TRUE, count |-> n,
                       extent |-> chooseSwapExtent(currentDefined)]
    /\ swap_chain_image_views_' = n
    /\ images' = FreshImages(n)
    /\ ctx_size' = 0
    /\ pc' = "r_rebuild"
    /\ UNCHANGED << current_frame_, framebuffer_resized_, image_index,
                    command_buffers_, recreate_from,
                    swap_chain_framebuffers_, depth_live, pipelines_live,
                    sync_live, overlay_live, in_flight_fences_,
                    image_available_semaphores_, render_finished_semaphores_,
                    queue, presentQ >>
    /\ UNCHANGED << envVars, callVars >>
    /\ UNCHANGED << upVars, surfVars, initVars >>

createFramebuffersStaleExtent ==
    [count |-> swap_chain_image_views_, extent |-> swap_chain_framebuffers_.extent]

\* VulkanRenderer::createFramebuffers: the vector is resized to the number of
\* image views of the context and one framebuffer is created per view with
\* the extent of the swap chain (and the depth view just created).
createFramebuffers ==
    [count |-> swap_chain_image_views_, extent |-> swap_chain_.extent]

\* createDepthResources(); createFramebuffers(); createGraphicsPipeline();
\* createSkyBoxPipeline(); then back to the caller inside drawFrame.
RendererRebuild ==
    /\ pc = "r_rebuild"
    /\ depth_live' = TRUE
    /\ swap_chain_framebuffers_' = createFramebuffers
    /\ pipelines_live' = TRUE
    /\ CpuStep(IF recreate_from = "acquire" THEN "poll" ELSE "advance", "rebuild")
    /\ recreate_from' = "none"
    /\ UNCHANGED << current_frame_, framebuffer_resized_, image_index,
                    command_buffers_, ctx_size, frameNo,
                    start_frame, acq_result, pres_result,
                    swap_chain_, swap_chain_image_views_, sync_live, overlay_live >>
    /\ UNCHANGED << gpuVars, envVars >>
    /\ UNCHANGED << upVars, surfVars, initVars >>

\* ------------------------------------------------------------ loop exit
\* mainLoop: context_->getDevice().waitIdle() after the loop, then run() returns
ExitWaitIdle ==
    /\ pc = "exit_waitidle"
    /\ DeviceIdle
    /\ pc' = "cleanup"
    /\ UNCHANGED << current_frame_, framebuffer_resized_, image_index,
                    command_buffers_, ctx_size, recreate_from >>
    /\ UNCHANGED << gpuVars, resVars, envVars, callVars >>
    /\ UNCHANGED << upVars, surfVars, initVars >>

\* The exception thrown by drawFrame leaves run(); ~VulkanRenderer runs cleanup().
Unwind ==
    /\ pc = "unwind"
    /\ pc' = "cleanup"
    /\ image_index' = 0
    /\ start_frame' = 0
    /\ acq_result' = "none"
    /\ pres_result' = "none"
    /\ trace' = << >>
    /\ UNCHANGED << current_frame_, framebuffer_resized_,
                    command_buffers_, ctx_size, recreate_from, frameNo >>
    /\ UNCHANGED << gpuVars, resVars, envVars >>
    /\ UNCHANGED << upVars, surfVars, initVars >>

\* VulkanRenderer::cleanup: ui_overlay_.reset()
CleanupOverlay ==
    /\ pc = "cleanup"
    /\ overlay_live' = FALSE
    /\ pc' = "cleanup_waitidle"
    /\ UNCHANGED << current_frame_, framebuffer_resized_, image_index,
                    command_buffers_, ctx_size, recreate_from, swap_chain_,
                    swap_chain_image_views_, swap_chain_framebuffers_,
                    depth_live, pipelines_live, sync_live >>
    /\ UNCHANGED << gpuVars, envVars, callVars >>
    /\ UNCHANGED << upVars, surfVars, initVars >>

\* VulkanRenderer::cleanup: device.waitIdle()
CleanupWaitIdle ==
    /\ pc = "cleanup_waitidle"
    /\ DeviceIdle
    /\ pc' = "cleanup_destroy"
    /\ UNCHANGED << current_frame_, framebuffer_resized_, image_index,
                    command_buffers_, ctx_size, recreate_from >>
    /\ UNCHANGED << gpuVars, resVars, envVars, callVars >>
    /\ UNCHANGED << upVars, surfVars, initVars >>

\* VulkanRenderer::cleanup: destroy semaphores, fences, depth resources,
\* framebuffers, pipelines, render pass; context_.reset() destroys the swap chain.
CleanupDestroy ==
    /\ pc = "cleanup_destroy"
    /\ sync_live' = FALSE
    /\ depth_live' = FALSE
    /\ pipelines_live' = FALSE
    /\ swap_chain_framebuffers_' = [swap_chain_framebuffers_ EXCEPT !.count = 0]
    /\ swap_chain_image_views_' = 0
    /\ swap_chain_' = [swap_chain_ EXCEPT !.live = FALSE]
    /\ pc' = "done"
    /\ UNCHANGED << current_frame_, framebuffer_resized_, image_index,
                    command_buffers_, ctx_size, recreate_from, overlay_live >>
    /\ UNCHANGED << gpuVars, envVars, callVars >>
    /\ UNCHANGED << upVars, surfVars, initVars >>

\* ------------------------------------------- GPU and presentation engine
\* The presentation engine releases the image an acquire returned and
\* signals the semaphore that acquire was given.
PresentEngineRelease(s) ==
    /\ image_available_semaphores_[s].st = "pending"
    /\ image_available_semaphores_' =
          [image_available_semaphores_ EXCEPT ![s].st = "signaled"]
    /\ images' = [i \in DOMAIN images |->
                    IF /\ images[i].st = "acq_pending"
                       /\ images[i].owner = image_available_semaphores_[s].frame
                    THEN [images[i] EXCEPT !.st = "acq"]
                    ELSE images[i]]
    /\ UNCHANGED << pc, current_frame_, framebuffer_resized_, image_index,
                    command_buffers_, ctx_size, recreate_from,
                    in_flight_fences_, render_finished_semaphores_, queue,
                    presentQ >>
    /\ UNCHANGED << resVars, envVars, callVars >>
    /\ UNCHANGED << upVars, surfVars, initVars >>

\* A queued submission passes its semaphore wait and starts color output.
GpuBeginColor(k) ==
    /\ k \in 1 .. Len(queue)
    /\ queue[k].phase = "queued"
    /\ image_available_semaphores_[queue[k].waitSem].st = "signaled"
    /\ image_available_semaphores_' =
          [image_available_semaphores_ EXCEPT ![queue[k].waitSem] = Unsignaled]
    /\ queue' = [queue EXCEPT ![k].phase = "color"]
    /\ UNCHANGED << pc, current_frame_, framebuffer_resized_, image_index,
                    command_buffers_, ctx_size, recreate_from,
                    in_flight_fences_, render_finished_semaphores_, presentQ,
                    images >>
    /\ UNCHANGED << resVars, envVars, callVars >>
    /\ UNCHANGED << upVars, surfVars, initVars >>

\* A submission completes: signals its semaphore and its fence.
GpuComplete(k) ==
    /\ k \in 1 .. Len(queue)
    /\ queue[k].phase = "color"
    /\ queue' = RemoveAt(queue, k)
    /\ render_finished_semaphores_' =
          [render_finished_semaphores_ EXCEPT ![queue[k].signalSem] =
              [st |-> "signaled", frame |-> queue[k].frame]]
    /\ in_flight_fences_' = [in_flight_fences_ EXCEPT ![queue[k].fence] = TRUE]
    /\ images' = [i \in DOMAIN images |->
                    IF i = queue[k].fb /\ images[i].owner = queue[k].frame
                    THEN [images[i] EXCEPT !.rendered = TRUE]
                    ELSE images[i]]
    /\ UNCHANGED << pc, current_frame_, framebuffer_resized_, image_index,
                    command_buffers_, ctx_size, recreate_from,
                    image_available_semaphores_, presentQ >>
    /\ UNCHANGED << resVars, envVars, callVars >>
    /\ UNCHANGED << upVars, surfVars, initVars >>

\* The oldest present request passes its semaphore wait; the presentation
\* engine takes the image.
PresentExecute ==
    /\ presentQ # << >>
    /\ render_finished_semaphores_[Head(presentQ).waitSem].st = "signaled"
    /\ render_finished_semaphores_' =
          [render_finished_semaphores_ EXCEPT ![Head(presentQ).waitSem] = Unsignaled]
    /\ presentQ' = Tail(presentQ)
    /\ images' = [i \in DOMAIN images |->
                    IF i = Head(presentQ).image /\ images[i].owner = Head(presentQ).frame
                    THEN FreeImage
                    ELSE images[i]]
    /\ UNCHANGED << pc, current_frame_, framebuffer_resized_, image_index,
                    command_buffers_, ctx_size, recreate_from,
                    in_flight_fences_, image_available_semaphores_, queue >>
    /\ UNCHANGED << resVars, envVars, callVars >>
    /\ UNCHANGED << upVars, surfVars, initVars >>

\* ------------------------------------------------------------ specification
Next ==
    \/ \E sz \in FbSizes : WindowResized(sz)
    \/ framebufferResizeCallback
    \/ MainLoopIter
    \/ MainLoopExit
    \/ WaitForFences
    \/ \E r \in AcquireResults, i \in 0 .. (MaxImages - 1) : AcquireOk(r, i)
    \/ AcquireOutOfDate
    \/ AcquireError
    \/ UpdateUniforms
    \/ ResetFences
    \/ ResetCommandBuffer
    \/ RecordCommands
    \/ EndCommandBuffer
    \/ QueueSubmit
    \/ \E r \in PresentResults : QueuePresent(r)
    \/ AdvanceFrame
    \/ RendererWaitIdle
    \/ RendererDestroy
    \/ ContextGetSize
    \/ ContextLoopGetSize
    \/ ContextWaitEvents
    \/ ContextWaitIdle
    \/ cleanupSwapChain
    \/ \E n \in ImageCounts, d \in BOOLEAN : createSwapChain(n, d)
    \/ RendererRebuild
    \/ ExitWaitIdle
    \/ Unwind
    \/ CleanupOverlay
    \/ CleanupWaitIdle
    \/ CleanupDestroy
    \/ \E s \in Slots : PresentEngineRelease(s)
    \/ \E k \in 1 .. MaxFrames : GpuBeginColor(k)
    \/ \E k \in 1 .. MaxFrames : GpuComplete(k)
    \/ PresentExecute

Spec == Init /\ [][Next]_vars

\* ------------------------------------------------ one-shot command buffers
Layouts == {"Undefined", "TransferDstOptimal", "ShaderReadOnlyOptimal"}

\* The callers of beginSingleTimeCommands / endSingleTimeCommands.
OneShotOps ==
    {[kind |-> "transitionImageLayout", old |-> o, new |-> n] : o \in Layouts, n \in Layouts}
    \cup {[kind |-> "copyBufferToImage", old |-> "none", new |-> "none"],
          [kind |-> "copyBuffer", old |-> "none", new |-> "none"]}

SupportedTransitionAny(o, n) == TRUE

\* Texture::transitionImageLayout / SkyBox::transitionImageLayout: the two
\* recognised (old, new) pairs.
SupportedTransition(o, n) ==
    \/ o = "Undefined" /\ n = "TransferDstOptimal"
    \/ o = "TransferDstOptimal" /\ n = "ShaderReadOnlyOptimal"

\* The access masks and pipeline stages transitionImageLayout sets for the
\* barrier of (o, n); they stay default-initialised for any other pair.
Barrier(o, n) ==
    IF o = "Undefined" /\ n = "TransferDstOptimal"
    THEN [srcAccess |-> "None", dstAccess |-> "TransferWrite",
          srcStage |-> "TopOfPipe", dstStage |-> "Transfer"]
    ELSE IF o = "TransferDstOptimal" /\ n = "ShaderReadOnlyOptimal"
    THEN [srcAccess |-> "TransferWrite", dstAccess |-> "ShaderRead",
          srcStage |-> "Transfer", dstStage |-> "FragmentShader"]
    ELSE NoBarrier

\* A caller (Texture, SkyBox, Mesh) enters one of its one-shot operations.
StartOneShot(op) ==
    /\ u_pc = "idle"
    /\ ops_done < MaxOps
    /\ op \in OneShotOps
    /\ u_op' = op
    /\ u_pc' = "begin"
    /\ recorded' = NoCommand
    /\ UNCHANGED << pool_cbs, cb_state, gpu_oneshot, ops_done >>
    /\ UNCHANGED frameVars
    /\ UNCHANGED << memVars, bufVars, imgVars, xferVars >>

\* VulkanContext::beginSingleTimeCommands: allocateCommandBuffers(...)[0]; begin
beginSingleTimeCommands ==
    /\ u_pc = "begin"
    /\ pool_cbs' = pool_cbs + 1
    /\ cb_state' = "recording"
    /\ u_pc' = "body"
    /\ UNCHANGED << u_op, gpu_oneshot, recorded, ops_done >>
    /\ UNCHANGED frameVars
    /\ UNCHANGED << memVars, bufVars, imgVars, xferVars >>

\* The caller's code between begin and end: the barrier of a recognised
\* transition or the copy command; an unrecognised transition throws
\* std::invalid_argument.
RecordOneShot ==
    /\ u_pc = "body"
    /\ IF u_op.kind = "transitionImageLayout" /\ ~SupportedTransition(u_op.old, u_op.new)
       THEN /\ u_pc' = "thrown"
            /\ UNCHANGED recorded
       ELSE /\ u_pc' = "end"
            /\ recorded' = IF u_op.kind = "transitionImageLayout"
                           THEN [cmd |-> "pipelineBarrier",
                                 barrier |-> Barrier(u_op.old, u_op.new)]
                           ELSE [cmd |-> u_op.kind, barrier |-> NoBarrier]
    /\ UNCHANGED << u_op, pool_cbs, cb_state, gpu_oneshot, ops_done >>
    /\ UNCHANGED frameVars
    /\ UNCHANGED << memVars, bufVars, imgVars, xferVars >>

\* endSingleTimeCommands: command_buffer.end(); it throws when it fails
OneShotEnd(ok) ==
    /\ u_pc = "end"
    /\ IF ok THEN /\ cb_state' = "executable"
                  /\ u_pc' = "os_submit"
             ELSE /\ cb_state' = "invalid"
                  /\ u_pc' = "thrown"
    /\ UNCHANGED << u_op, pool_cbs, gpu_oneshot, recorded, ops_done >>
    /\ UNCHANGED frameVars
    /\ UNCHANGED << memVars, bufVars, imgVars, xferVars >>

\* endSingleTimeCommands: graphics_queue_.submit(submit_info, nullptr)
OneShotSubmit(ok) ==
    /\ u_pc = "os_submit"
    /\ IF ok THEN /\ cb_state' = "pending"
                  /\ gpu_oneshot' = "executing"
                  /\ u_pc' = "os_wait"
             ELSE /\ u_pc' = "thrown"
                  /\ UNCHANGED << cb_state, gpu_oneshot >>
    /\ UNCHANGED << u_op, pool_cbs, recorded, ops_done >>
    /\ UNCHANGED frameVars
    /\ UNCHANGED << memVars, bufVars, imgVars, xferVars >>

\* The graphics queue finishes the one-shot work.
OneShotGpuComplete ==
    /\ gpu_oneshot = "executing"
    /\ gpu_oneshot' = "idle"
    /\ cb_state' = IF cb_state = "pending" THEN "invalid" ELSE cb_state
    /\ UNCHANGED << u_pc, u_op, pool_cbs, recorded, ops_done >>
    /\ UNCHANGED frameVars
    /\ UNCHANGED << memVars, bufVars, imgVars, xferVars >>

QueueIdleNotAwaited == TRUE

\* What graphics_queue_.waitIdle() blocks on.
QueueIdle == gpu_oneshot = "idle"

\* endSingleTimeCommands: graphics_queue_.waitIdle(); returns when the queue
\* is idle, throws when the wait fails (device lost)
OneShotWaitIdle(ok) ==
    /\ u_pc = "os_wait"
    /\ IF ok THEN /\ QueueIdle
                  /\ u_pc' = "os_free"
             ELSE /\ u_pc' = "thrown"
    /\ UNCHANGED << u_op, pool_cbs, cb_state, gpu_oneshot, recorded, ops_done >>
    /\ UNCHANGED frameVars
    /\ UNCHANGED << memVars, bufVars, imgVars, xferVars >>

\* endSingleTimeCommands: device_.freeCommandBuffers(command_pool_, command_buffer)
OneShotFree ==
    /\ u_pc = "os_free"
    /\ pool_cbs' = pool_cbs - 1
    /\ cb_state' = "freed"
    /\ u_pc' = "returned"
    /\ UNCHANGED << u_op, gpu_oneshot, recorded, ops_done >>
    /\ UNCHANGED frameVars
    /\ UNCHANGED << memVars, bufVars, imgVars, xferVars >>

\* The operation returned to its caller, which goes on to the next one.
OneShotReturn ==
    /\ u_pc = "returned"
    /\ u_pc' = "idle"
    /\ ops_done' = ops_done + 1
    /\ UNCHANGED << u_op, pool_cbs, cb_state, gpu_oneshot, recorded >>
    /\ UNCHANGED frameVars
    /\ UNCHANGED << memVars, bufVars, imgVars, xferVars >>

InitUpload ==
    /\ FrameStart(MaxImages, 1)
    /\ SurfRest
    /\ InitRest
    /\ UploadRest

NextUpload ==
    \/ \E op \in OneShotOps : StartOneShot(op)
    \/ beginSingleTimeCommands
    \/ RecordOneShot
    \/ \E ok \in BOOLEAN : OneShotEnd(ok)
    \/ \E ok \in BOOLEAN : OneShotSubmit(ok)
    \/ OneShotGpuComplete
    \/ \E ok \in BOOLEAN : OneShotWaitIdle(ok)
    \/ OneShotFree
    \/ OneShotReturn

SpecUpload == InitUpload /\ [][NextUpload]_vars

\* ------------------------------------------------------- memory types
FilterBitIgnored(filter, i) == TRUE

\* type_filter & (1 << i)
FilterBit(filter, i) == (filter \div (2 ^ i)) % 2 = 1

RECURSIVE findMemoryTypeFrom(_, _, _, _)
\* The for loop of findMemoryType from index i on.
findMemoryTypeFrom(i, filter, props, types) ==
    IF i >= Len(types)
    THEN [called |-> TRUE, ok |-> FALSE, index |-> 0]
    ELSE IF FilterBit(filter, i) /\ (types[i + 1] \cap props) = props
         THEN [called |-> TRUE, ok |-> TRUE, index |-> i]
         ELSE findMemoryTypeFrom(i + 1, filter, props, types)

\* Mesh / Texture / Material / SkyBox / VulkanRenderer ::findMemoryType: the
\* index returned, or ok = FALSE where it throws std::runtime_error.
findMemoryType(filter, props) == findMemoryTypeFrom(0, filter, props, mem_types)

MemTables ==
    UNION {[1 .. n -> SUBSET PropertyFlagBits] : n \in 1 .. MaxMemTypes}
TypeFilters == 0 .. (2 ^ MaxMemTypes - 1)

\* A caller evaluates findMemoryType(type_filter, properties).
CallFindMemoryType ==
    /\ ~found.called
    /\ found' = findMemoryType(type_filter, properties)
    /\ UNCHANGED << mem_types, type_filter, properties >>
    /\ UNCHANGED << frameVars, oneShotVars, bufVars, imgVars, xferVars >>

InitMemType ==
    /\ FrameStart(MaxImages, 1)
    /\ SurfRest
    /\ InitRest
    /\ OneShotRest /\ BufRest /\ ImgRest /\ XferRest
    /\ mem_types \in MemTables
    /\ type_filter \in TypeFilters
    /\ properties \in SUBSET PropertyFlagBits
    /\ found = NotCalled

NextMemType == CallFindMemoryType

SpecMemType == InitMemType /\ [][NextMemType]_vars

\* ----------------------------------------------------------- createBuffer
\* The memory property flags the program passes to createBuffer.
BufferRequests == {{"DeviceLocal"}, {"HostVisible", "HostCoherent"}}

\* A caller calls createBuffer(size, usage, props, buffer, buffer_memory) on
\* the pair named t.
CreateBufferCall(t, props) ==
    /\ b_pc = "idle"
    /\ up_state = "idle"
    /\ t \in BufNames
    /\ props \in BufferRequests
    /\ b_target' = t
    /\ properties' = props
    /\ b_pc' = "create"
    /\ UNCHANGED << bufs, mem_types, type_filter, found >>
    /\ UNCHANGED << frameVars, oneShotVars, imgVars, xferVars >>

\* try { buffer = device.createBuffer(buffer_info); } catch { return false; }
BufCreate(ok) ==
    /\ b_pc = "create"
    /\ IF ok THEN /\ bufs' = [bufs EXCEPT ![b_target].buffer = "live"]
                  /\ b_pc' = "find"
             ELSE /\ b_pc' = "false"
                  /\ UNCHANGED bufs
    /\ UNCHANGED << b_target, memVars >>
    /\ UNCHANGED << frameVars, oneShotVars, imgVars, xferVars >>

\* getBufferMemoryRequirements(buffer); alloc_info.memoryTypeIndex =
\* findMemoryType(mem_requirements.memoryTypeBits, properties), outside any try
BufFindMemoryType(filter) ==
    /\ b_pc = "find"
    /\ filter \in TypeFilters
    /\ type_filter' = filter
    /\ found' = findMemoryType(filter, properties)
    /\ b_pc' = IF found'.ok THEN "allocate" ELSE "thrown"
    /\ UNCHANGED << b_target, bufs, mem_types, properties >>
    /\ UNCHANGED << frameVars, oneShotVars, imgVars, xferVars >>

\* try { buffer_memory = device.allocateMemory(alloc_info); ... }
\* catch { device.destroyBuffer(buffer); return false; }
BufAllocate(ok) ==
    /\ b_pc = "allocate"
    /\ IF ok THEN /\ bufs' = [bufs EXCEPT ![b_target].memory = "live"]
                  /\ b_pc' = "bind"
             ELSE /\ bufs' = [bufs EXCEPT ![b_target].buffer = "destroyed"]
                  /\ b_pc' = "false"
    /\ UNCHANGED << b_target, memVars >>
    /\ UNCHANGED << frameVars, oneShotVars, imgVars, xferVars >>

\* try { ...; device.bindBufferMemory(buffer, buffer_memory, 0); }
\* catch { device.destroyBuffer(buffer); return false; }  then return true
BufBind(ok) ==
    /\ b_pc = "bind"
    /\ IF ok THEN /\ bufs' = [bufs EXCEPT ![b_target].bound = TRUE]
                  /\ b_pc' = "true"
             ELSE /\ bufs' = [bufs EXCEPT ![b_target].buffer = "destroyed"]
                  /\ b_pc' = "false"
    /\ UNCHANGED << b_target, memVars >>
    /\ UNCHANGED << frameVars, oneShotVars, imgVars, xferVars >>

InitBuffer ==
    /\ FrameStart(MaxImages, 1)
    /\ SurfRest
    /\ InitRest
    /\ OneShotRest /\ BufRest /\ ImgRest /\ XferRest
    /\ mem_types \in MemTables
    /\ type_filter = 0
    /\ properties = {}
    /\ found = NotCalled

NextBuffer ==
    \/ \E t \in BufNames, props \in BufferRequests : CreateBufferCall(t, props)
    \/ \E ok \in BOOLEAN : BufCreate(ok)
    \/ \E filter \in TypeFilters : BufFindMemoryType(filter)
    \/ \E ok \in BOOLEAN : BufAllocate(ok)
    \/ \E ok \in BOOLEAN : BufBind(ok)

SpecBuffer == InitBuffer /\ [][NextBuffer]_vars

\* Mesh::cleanup on the member pair (vertex_buffer_, vertex_buffer_memory_)
\* after the creation call has returned or raised, or after an earlier
\* cleanup: with the buffer handle set, destroyBuffer, freeMemory and the
\* buffer handle is nulled. A destroyBuffer on a handle createBuffer has
\* destroyed already is recorded in faults.
MeshCleanup ==
    /\ b_pc \in {"true", "false", "thrown", "released"}
    /\ up_state = "idle"
    /\ LET pair == bufs["device"]
       IN  IF pair.buffer # "null"
           THEN /\ faults' = IF pair.buffer = "destroyed"
                             THEN faults \cup {"destroyBuffer twice"}
                             ELSE faults
                /\ bufs' = [bufs EXCEPT !["device"] =
                                [buffer |-> "null",
                                 memory |-> IF pair.memory = "live"
                                            THEN "freed" ELSE pair.memory,
                                 bound |-> FALSE]]
           ELSE UNCHANGED << faults, bufs >>
    /\ b_pc' = "released"
    /\ UNCHANGED << b_target, memVars >>
    /\ UNCHANGED << loopVars, oneShotVars, imgVars, xferVars >>
    /\ UNCHANGED << init_pc, ci_steps, ci_ret, ri_steps, ri_ret, vk_ctx, rnd,
                    dev_n, dev_i, dev_cur, examined, td_ix, destroyed,
                    pipeline_layouts >>

NextMesh == NextBuffer \/ MeshCleanup

SpecMesh == InitBuffer /\ [][NextMesh]_vars

\* --------------------------------------------------------- image creation
\* Texture::createImage, the head of SkyBox::createCubemapTexture and of
\* VulkanRenderer::createDepthResources share one shape: create the image,
\* look up a memory type, allocate and bind.
CreateImageCall ==
    /\ i_pc = "idle"
    /\ up_state = "idle"
    /\ properties' = {"DeviceLocal"}
    /\ i_pc' = "create"
    /\ UNCHANGED << image_, mem_types, type_filter, found >>
    /\ UNCHANGED << frameVars, oneShotVars, bufVars, xferVars >>

\* try { image_ = device.createImage(image_info); } catch { return false; }
ImgCreate(ok) ==
    /\ i_pc = "create"
    /\ IF ok THEN /\ image_' = [image_ EXCEPT !.image = "live"]
                  /\ i_pc' = "find"
             ELSE /\ i_pc' = "false"
                  /\ UNCHANGED image_
    /\ UNCHANGED memVars
    /\ UNCHANGED << frameVars, oneShotVars, bufVars, xferVars >>

\* getImageMemoryRequirements; findMemoryType(...), outside any try
ImgFindMemoryType(filter) ==
    /\ i_pc = "find"
    /\ filter \in TypeFilters
    /\ type_filter' = filter
    /\ found' = findMemoryType(filter, properties)
    /\ i_pc' = IF found'.ok THEN "allocate" ELSE "thrown"
    /\ UNCHANGED << image_, mem_types, properties >>
    /\ UNCHANGED << frameVars, oneShotVars, bufVars, xferVars >>

\* try { image_memory_ = device.allocateMemory(alloc_info); ... }
\* catch { return false; }
ImgAllocate(ok) ==
    /\ i_pc = "allocate"
    /\ IF ok THEN /\ image_' = [image_ EXCEPT !.memory = "live"]
                  /\ i_pc' = "bind"
             ELSE /\ i_pc' = "false"
                  /\ UNCHANGED image_
    /\ UNCHANGED memVars
    /\ UNCHANGED << frameVars, oneShotVars, bufVars, xferVars >>

\* try { ...; device.bindImageMemory(image_, image_memory_, 0); }
\* catch { return false; }
ImgBind(ok) ==
    /\ i_pc = "bind"
    /\ IF ok THEN /\ image_' = [image_ EXCEPT !.bound = TRUE]
                  /\ i_pc' = "true"
             ELSE /\ i_pc' = "false"
                  /\ UNCHANGED image_
    /\ UNCHANGED memVars
    /\ UNCHANGED << frameVars, oneShotVars, bufVars, xferVars >>

InitImage ==
    /\ FrameStart(MaxImages, 1)
    /\ SurfRest
    /\ InitRest
    /\ OneShotRest /\ BufRest /\ ImgRest /\ XferRest
    /\ mem_types \in MemTables
    /\ type_filter = 0
    /\ properties = {}
    /\ found = NotCalled

NextImage ==
    \/ CreateImageCall
    \/ \E ok \in BOOLEAN : ImgCreate(ok)
    \/ \E filter \in TypeFilters : ImgFindMemoryType(filter)
    \/ \E ok \in BOOLEAN : ImgAllocate(ok)
    \/ \E ok \in BOOLEAN : ImgBind(ok)

SpecImage == InitImage /\ [][NextImage]_vars

\* ------------------------------------------------------- upload operations
CubeFaces == 6

Step(op, arg) == [op |-> op, arg |-> arg]

\* Mesh::createVertexBuffer, Mesh::createIndexBuffer, SkyBox::createVertexBuffer
BufferScript ==
    << Step("createStaging", 0), Step("map", 0), Step("createDevice", 0),
       Step("copyBuffer", 0), Step("destroyStaging", 0), Step("return", 0) >>

TextureScriptCopyFirst ==
    << Step("createStaging", 0), Step("map", 0), Step("createImage", 0),
       Step("copyBufferToImage", 0), Step("toTransferDst", 0),
       Step("toShaderRead", 0), Step("destroyStaging", 0),
       Step("createView", 0), Step("createSampler", 0), Step("return", 0) >>

\* Texture::loadFromFile after the pixels were loaded
TextureScript ==
    << Step("createStaging", 0), Step("map", 0), Step("createImage", 0),
       Step("toTransferDst", 0), Step("copyBufferToImage", 0),
       Step("toShaderRead", 0), Step("destroyStaging", 0),
       Step("createView", 0), Step("createSampler", 0), Step("return", 0) >>

RECURSIVE FacesScript(_)
\* SkyBox::createCubemapTexture: the body of for (i = 0; i < 6; i++)
FacesScript(i) ==
    IF i >= CubeFaces
    THEN << >>
    ELSE << Step("createStaging", i), Step("map", i),
            Step("copyBufferToImage", i), Step("destroyStaging", i) >>
         \o FacesScript(i + 1)

\* SkyBox::createCubemapTexture
CubemapScript ==
    << Step("createImage", 0), Step("toTransferDst", 0) >>
    \o FacesScript(0)
    \o << Step("toShaderRead", 0), Step("createView", 0),
          Step("createSampler", 0), Step("return", 0) >>

UploadKinds == {"meshVertex", "meshIndex", "skyboxVertex", "texture", "cubemap"}

Script(kind) ==
    IF kind = "texture" THEN TextureScript
    ELSE IF kind = "cubemap" THEN CubemapScript
    ELSE BufferScript

Running == up_state = "run" /\ up_ix \in 1 .. Len(Script(up_kind))
CurStep == Script(up_kind)[up_ix]

\* The one-shot operation a step of an upload calls.
OneShotOf(step) ==
    IF step.op = "toTransferDst"
    THEN [kind |-> "transitionImageLayout", old |-> "Undefined",
          new |-> "TransferDstOptimal"]
    ELSE IF step.op = "toShaderRead"
    THEN [kind |-> "transitionImageLayout", old |-> "TransferDstOptimal",
          new |-> "ShaderReadOnlyOptimal"]
    ELSE [kind |-> step.op, old |-> "none", new |-> "none"]

OneShotSteps == {"toTransferDst", "toShaderRead", "copyBuffer", "copyBufferToImage"}

\* The staging buffer and its memory are destroyed and freed.
StagingDestroyed ==
    [bufs EXCEPT !["staging"] = [buffer |-> "destroyed", memory |-> "freed",
                                 bound |-> FALSE]]

\* An owner starts one of its upload operations.
UploadStart(kind) ==
    /\ up_state = "idle"
    /\ b_pc = "idle" /\ i_pc = "idle" /\ u_pc = "idle"
    /\ kind \in UploadKinds
    /\ up_kind' = kind
    /\ up_ix' = 1
    /\ up_state' = "run"
    /\ UNCHANGED << frameVars, oneShotVars, memVars, bufVars, imgVars >>

\* vk::Buffer staging_buffer; vk::DeviceMemory staging_buffer_memory;
\* createBuffer(..., eHostVisible | eHostCoherent, staging_buffer, ...) or
\* createBuffer(..., eDeviceLocal, vertex_buffer_, vertex_buffer_memory_)
UploadCallCreateBuffer ==
    /\ Running
    /\ CurStep.op \in {"createStaging", "createDevice"}
    /\ b_pc = "idle"
    /\ b_pc' = "create"
    /\ IF CurStep.op = "createStaging"
       THEN /\ b_target' = "staging"
            /\ properties' = {"HostVisible", "HostCoherent"}
            /\ bufs' = [bufs EXCEPT !["staging"] = NullBuf]
       ELSE /\ b_target' = "device"
            /\ properties' = {"DeviceLocal"}
            /\ UNCHANGED bufs
    /\ UNCHANGED << mem_types, type_filter, found >>
    /\ UNCHANGED << frameVars, oneShotVars, imgVars, xferVars >>

\* if (!createBuffer(...)) { [destroy staging;] return false; }
UploadCreateBufferReturned ==
    /\ Running
    /\ CurStep.op \in {"createStaging", "createDevice"}
    /\ b_pc \in {"true", "false", "thrown"}
    /\ b_pc' = "idle"
    /\ CASE b_pc = "true" ->
              /\ up_ix' = up_ix + 1
              /\ UNCHANGED << up_state, bufs >>
         [] b_pc = "false" ->
              /\ up_state' = "false"
              /\ bufs' = IF CurStep.op = "createDevice" THEN StagingDestroyed ELSE bufs
              /\ UNCHANGED up_ix
         [] OTHER ->
              /\ up_state' = "thrown"
              /\ UNCHANGED << up_ix, bufs >>
    /\ UNCHANGED << up_kind, b_target, memVars >>
    /\ UNCHANGED << frameVars, oneShotVars, imgVars >>

\* device.mapMemory(staging_buffer_memory, ...); memcpy; unmapMemory
UploadMap(ok) ==
    /\ Running
    /\ CurStep.op = "map"
    /\ IF ok THEN up_ix' = up_ix + 1 /\ UNCHANGED up_state
             ELSE up_state' = "thrown" /\ UNCHANGED up_ix
    /\ UNCHANGED up_kind
    /\ UNCHANGED << frameVars, oneShotVars, memVars, bufVars, imgVars >>

\* createImage(...) of Texture::loadFromFile; the image creation at the head
\* of SkyBox::createCubemapTexture
UploadCallCreateImage ==
    /\ Running
    /\ CurStep.op = "createImage"
    /\ i_pc = "idle"
    /\ i_pc' = "create"
    /\ properties' = {"DeviceLocal"}
    /\ UNCHANGED << image_, mem_types, type_filter, found >>
    /\ UNCHANGED << frameVars, oneShotVars, bufVars, xferVars >>

\* if (!createImage(...)) { destroy staging; return false; } in the texture;
\* return false in the cubemap, which has no staging buffer yet
UploadCreateImageReturned ==
    /\ Running
    /\ CurStep.op = "createImage"
    /\ i_pc \in {"true", "false", "thrown"}
    /\ i_pc' = "idle"
    /\ CASE i_pc = "true" ->
              /\ up_ix' = up_ix + 1
              /\ UNCHANGED << up_state, bufs >>
         [] i_pc = "false" ->
              /\ up_state' = "false"
              /\ bufs' = IF up_kind = "texture" THEN StagingDestroyed ELSE bufs
              /\ UNCHANGED up_ix
         [] OTHER ->
              /\ up_state' = "thrown"
              /\ UNCHANGED << up_ix, bufs >>
    /\ UNCHANGED << up_kind, image_, b_pc, b_target, memVars >>
    /\ UNCHANGED << frameVars, oneShotVars >>

\* copyBuffer / copyBufferToImage / transitionImageLayout is entered.
UploadCallOneShot ==
    /\ Running
    /\ CurStep.op \in OneShotSteps
    /\ u_pc = "idle"
    /\ u_op' = OneShotOf(CurStep)
    /\ u_pc' = "begin"
    /\ recorded' = NoCommand
    /\ UNCHANGED << pool_cbs, cb_state, gpu_oneshot, ops_done >>
    /\ UNCHANGED << frameVars, memVars, bufVars, imgVars, xferVars >>

\* The one-shot operation returned: its work on the image is done.
UploadOneShotReturned ==
    /\ Running
    /\ CurStep.op \in OneShotSteps
    /\ u_pc = "returned"
    /\ u_pc' = "idle"
    /\ image_' = IF u_op.kind = "transitionImageLayout"
                 THEN [image_ EXCEPT !.layout = u_op.new,
                          !.transitions = Append(@, << u_op.old, u_op.new >>)]
                 ELSE IF u_op.kind = "copyBufferToImage"
                 THEN [image_ EXCEPT !.copies =
                          Append(@, [layer |-> CurStep.arg, layout |-> image_.layout])]
                 ELSE image_
    /\ up_ix' = up_ix + 1
    /\ UNCHANGED << up_kind, up_state, i_pc >>
    /\ UNCHANGED << u_op, pool_cbs, cb_state, gpu_oneshot, recorded, ops_done >>
    /\ UNCHANGED << frameVars, memVars, bufVars >>

\* The one-shot operation threw; the upload has no try block around it.
UploadOneShotThrew ==
    /\ Running
    /\ CurStep.op \in OneShotSteps
    /\ u_pc = "thrown"
    /\ up_state' = "thrown"
    /\ UNCHANGED << up_kind, up_ix >>
    /\ UNCHANGED << frameVars, oneShotVars, memVars, bufVars, imgVars >>

\* device.destroyBuffer(staging_buffer); device.freeMemory(staging_buffer_memory);
UploadDestroyStaging ==
    /\ Running
    /\ CurStep.op = "destroyStaging"
    /\ bufs' = StagingDestroyed
    /\ up_ix' = up_ix + 1
    /\ UNCHANGED << up_kind, up_state, b_pc, b_target >>
    /\ UNCHANGED << frameVars, oneShotVars, memVars, imgVars >>

\* createImageView / createSampler: try { ... } catch { return false; }
UploadCreateViewOrSampler(ok) ==
    /\ Running
    /\ CurStep.op \in {"createView", "createSampler"}
    /\ IF ok
       THEN /\ image_' = IF CurStep.op = "createView"
                         THEN [image_ EXCEPT !.view = TRUE]
                         ELSE [image_ EXCEPT !.sampler = TRUE]
            /\ up_ix' = up_ix + 1
            /\ UNCHANGED up_state
       ELSE /\ up_state' = "false"
            /\ UNCHANGED << up_ix, image_ >>
    /\ UNCHANGED << up_kind, i_pc >>
    /\ UNCHANGED << frameVars, oneShotVars, memVars, bufVars >>

\* return true;
UploadReturn ==
    /\ Running
    /\ CurStep.op = "return"
    /\ up_state' = "true"
    /\ UNCHANGED << up_kind, up_ix >>
    /\ UNCHANGED << frameVars, oneShotVars, memVars, bufVars, imgVars >>

\* The caller hands the image view and sampler to a descriptor set after the
\* upload returned true: Material::setTexture -> createDescriptorSets for the
\* texture, SkyBox::createDescriptorSets for the cubemap.
HandToDescriptorSet ==
    /\ up_state = "true"
    /\ up_kind \in {"texture", "cubemap"}
    /\ ~image_.descriptor
    /\ image_' = [image_ EXCEPT !.descriptor = TRUE]
    /\ UNCHANGED << i_pc, xferVars >>
    /\ UNCHANGED << frameVars, oneShotVars, memVars, bufVars >>

InitTransfer ==
    /\ FrameStart(MaxImages, 1)
    /\ SurfRest
    /\ InitRest
    /\ UploadRest

NextTransfer ==
    \/ \E kind \in UploadKinds : UploadStart(kind)
    \/ UploadCallCreateBuffer
    \/ UploadCreateBufferReturned
    \/ \E ok \in BOOLEAN : UploadMap(ok)
    \/ UploadCallCreateImage
    \/ UploadCreateImageReturned
    \/ UploadCallOneShot
    \/ UploadOneShotReturned
    \/ UploadOneShotThrew
    \/ UploadDestroyStaging
    \/ \E ok \in BOOLEAN : UploadCreateViewOrSampler(ok)
    \/ UploadReturn
    \/ HandToDescriptorSet
    \/ \E ok \in BOOLEAN : BufCreate(ok)
    \/ \E filter \in TypeFilters : BufFindMemoryType(filter)
    \/ \E ok \in BOOLEAN : BufAllocate(ok)
    \/ \E ok \in BOOLEAN : BufBind(ok)
    \/ \E ok \in BOOLEAN : ImgCreate(ok)
    \/ \E filter \in TypeFilters : ImgFindMemoryType(filter)
    \/ \E ok \in BOOLEAN : ImgAllocate(ok)
    \/ \E ok \in BOOLEAN : ImgBind(ok)
    \/ beginSingleTimeCommands
    \/ RecordOneShot
    \/ \E ok \in BOOLEAN : OneShotEnd(ok)
    \/ \E ok \in BOOLEAN : OneShotSubmit(ok)
    \/ OneShotGpuComplete
    \/ \E ok \in BOOLEAN : OneShotWaitIdle(ok)
    \/ OneShotFree

SpecTransfer == InitTransfer /\ [][NextTransfer]_vars

\* --------------------------------------------- swap-chain recreation calls
\* VulkanContext::recreateSwapChain called repeatedly on an idle device, with
\* createSwapChain and createImageViews step by step.

\* State that VulkanContext::recreateSwapChain neither reads nor writes.
outsideVars == << current_frame_, framebuffer_resized_, image_index,
                  command_buffers_, recreate_from, in_flight_fences_,
                  image_available_semaphores_, render_finished_semaphores_,
                  queue, presentQ, swap_chain_framebuffers_, depth_live,
                  pipelines_live, sync_live, overlay_live, callVars, upVars,
                  initVars >>

\* VulkanContext::chooseSwapSurfaceFormat: the first B8G8R8A8Srgb/SrgbNonlinear
\* entry, else the first entry.
chooseSwapSurfaceFormat(available_formats) ==
    IF \E j \in 1 .. Len(available_formats) : available_formats[j] = SrgbFormat
    THEN SrgbFormat
    ELSE available_formats[1]

\* image_count of createSwapChain: minImageCount + 1, capped by a nonzero
\* maxImageCount.
imageCount(capabilities) ==
    IF /\ capabilities.maxImageCount > 0
       /\ capabilities.minImageCount + 1 > capabilities.maxImageCount
    THEN capabilities.maxImageCount
    ELSE capabilities.minImageCount + 1

\* context_->recreateSwapChain() is called (vulkan_renderer.cpp). A call
\* that follows a failed one would destroy the stale handles cleanupSwapChain
\* left behind; such calls are not part of this specification.
RecreateCall ==
    /\ pc = "poll"
    /\ rc_prev.valid => rc_prev.result
    /\ pc' = "c_getsize"
    /\ UNCHANGED << images, swap_chain_, swap_chain_image_views_, envVars,
                    ctx_size, surfVars >>
    /\ UNCHANGED outsideVars

\* createSwapChain(): querySwapChainSupport reports swap_chain_support, the
\* create_info is filled from it, then device_.createSwapchainKHR and
\* getSwapchainImagesKHR run inside the try block; the catch returns false
\* and && skips createImageViews.
createSwapchainKHR(swap_chain_support, ok) ==
    /\ pc = "c_create"
    /\ IF ok
       THEN /\ swap_chain_' =
                   [live |-> TRUE, count |-> imageCount(swap_chain_support),
                    extent |-> chooseSwapExtent(swap_chain_support.currentDefined)]
            /\ images' = FreshImages(imageCount(swap_chain_support))
            /\ swap_chain_image_format_' =
                   chooseSwapSurfaceFormat(swap_chain_support.formats).format
            /\ pc' = "c_views"
       ELSE /\ UNCHANGED << swap_chain_, images, swap_chain_image_format_ >>
            /\ pc' = "c_return"
    /\ rc_cur' = [NoOutcome EXCEPT !.valid = TRUE, !.result = ok, !.driver_ok = ok,
                                   !.support = swap_chain_support,
                                   !.size = fb_size]
    /\ UNCHANGED << swap_chain_image_views_, envVars, ctx_size, rc_prev >>
    /\ UNCHANGED outsideVars

ViewsRemainingNone == FALSE

\* The loop condition i < swap_chain_images_.size() of createImageViews.
ViewsRemaining == swap_chain_image_views_ < swap_chain_.count

\* createImageViews, one pass of the loop: device_.createImageView; the catch
\* returns false.
createImageView(ok) ==
    /\ pc = "c_views"
    /\ ViewsRemaining
    /\ IF ok
       THEN /\ swap_chain_image_views_' = swap_chain_image_views_ + 1
            /\ UNCHANGED << pc, rc_cur >>
       ELSE /\ pc' = "c_return"
            /\ rc_cur' = [rc_cur EXCEPT !.result = FALSE, !.driver_ok = FALSE]
            /\ UNCHANGED swap_chain_image_views_
    /\ UNCHANGED << images, swap_chain_, envVars, ctx_size,
                    swap_chain_image_format_, rc_prev >>
    /\ UNCHANGED outsideVars

\* createImageViews: the loop is over, return true.
createImageViewsDone ==
    /\ pc = "c_views"
    /\ ~ViewsRemaining
    /\ pc' = "c_return"
    /\ UNCHANGED << images, swap_chain_, swap_chain_image_views_, envVars,
                    ctx_size, surfVars >>
    /\ UNCHANGED outsideVars

\* recreateSwapChain returns createSwapChain() && createImageViews(); its
\* locals go out of scope. The caller reads the new swap chain through
\* getSwapChainImages, getSwapChainImageFormat and getSwapChainExtent.
RecreateReturn ==
    /\ pc = "c_return"
    /\ rc_prev' = IF rc_cur.result
                  THEN [rc_cur EXCEPT !.count = swap_chain_.count,
                                      !.format = swap_chain_image_format_,
                                      !.extent = swap_chain_.extent]
                  ELSE [NoOutcome EXCEPT !.valid = TRUE, !.driver_ok = FALSE]
    /\ rc_cur' = NoOutcome
    /\ ctx_size' = 0
    /\ pc' = "poll"
    /\ UNCHANGED << images, swap_chain_, swap_chain_image_views_, envVars,
                    swap_chain_image_format_ >>
    /\ UNCHANGED outsideVars

\* The context has built its first swap chain from the surface (initVulkan).
InitRecreate ==
    /\ \E c \in Surfaces, sz \in FbSizes \ {0} :
          /\ FrameStart(imageCount(c), sz)
          /\ swap_chain_image_format_ = chooseSwapSurfaceFormat(c.formats).format
    /\ rc_cur = NoOutcome
    /\ rc_prev = NoOutcome
    /\ InitRest
    /\ UploadRest

NextRecreate ==
    \/ \E sz \in FbSizes : WindowResized(sz)
    \/ RecreateCall
    \/ ContextGetSize
    \/ ContextLoopGetSize
    \/ ContextWaitEvents
    \/ ContextWaitIdle
    \/ cleanupSwapChain
    \/ \E c \in Surfaces, ok \in BOOLEAN : createSwapchainKHR(c, ok)
    \/ \E ok \in BOOLEAN : createImageView(ok)
    \/ createImageViewsDone
    \/ RecreateReturn

SpecRecreate == InitRecreate /\ [][NextRecreate]_vars

\* ------------------------------------------------------- rebuild failures
\* The frame loop when the creation calls of a swap-chain recreation can fail.
\* A FALSE or zero resource after a failure stands for the handles left in the
\* members: destroyed by the recreation and not replaced.

\* createSwapChain() catches the exception of createSwapchainKHR and returns
\* false; recreateSwapChain returns false, which the renderer does not read.
createSwapChainFails ==
    /\ pc = "c_create"
    /\ ctx_size' = 0
    /\ pc' = "r_rebuild"
    /\ trace' = Append(trace, "rebuild_failed")
    /\ UNCHANGED << current_frame_, framebuffer_resized_, image_index,
                    command_buffers_, recreate_from, frameNo, start_frame,
                    acq_result, pres_result >>
    /\ UNCHANGED << gpuVars, resVars, envVars >>
    /\ UNCHANGED << upVars, surfVars, initVars >>

RebuildSteps == {"depth", "framebuffers", "pipelines"}

\* createDepthResources(); createFramebuffers(); createGraphicsPipeline();
\* createSkyBoxPipeline() where the call named by failed catches an exception
\* of the driver and returns false (createFramebuffers at its first
\* framebuffer); the return values are not read and the other calls run.
RendererRebuildFails(failed) ==
    /\ pc = "r_rebuild"
    /\ failed \in RebuildSteps
    /\ depth_live' = (failed # "depth")
    /\ swap_chain_framebuffers_' =
          [count |-> IF failed = "framebuffers" THEN 0 ELSE swap_chain_image_views_,
           extent |-> swap_chain_.extent]
    /\ pipelines_live' = (failed # "pipelines")
    /\ CpuStep(IF recreate_from = "acquire" THEN "poll" ELSE "advance",
               "rebuild_failed")
    /\ recreate_from' = "none"
    /\ UNCHANGED << current_frame_, framebuffer_resized_, image_index,
                    command_buffers_, ctx_size, frameNo,
                    start_frame, acq_result, pres_result,
                    swap_chain_, swap_chain_image_views_, sync_live, overlay_live >>
    /\ UNCHANGED << gpuVars, envVars >>
    /\ UNCHANGED << upVars, surfVars, initVars >>

NextRebuild ==
    \/ Next
    \/ createSwapChainFails
    \/ \E failed \in RebuildSteps : RendererRebuildFails(failed)

SpecRebuild == Init /\ [][NextRebuild]_vars

\* --------------------------------------------- initialization and teardown
\* main: VulkanRenderer renderer; renderer.initialize(...); ...; ~VulkanRenderer.
\* A step's outcome is "ok" (it returned true), "fail" (it returned false) or
\* "throw" (a library call outside its try block raised).

\* State of the running renderer, which initialization and teardown neither
\* read nor write.
runVars == << surfVars, pc, current_frame_, framebuffer_resized_,
              image_index, command_buffers_, recreate_from, frameNo,
              start_frame, acq_result, pres_result, trace, ctx_size,
              gpuVars, resVars, envVars, upVars >>

\* State that initialization leaves alone: the teardown has not started.
notInitVars == << runVars, td_ix, destroyed, pipeline_layouts >>

\* QueueFamilyIndices::isComplete
isComplete(indices) ==
    indices.graphics_family # NoIndex /\ indices.present_family # NoIndex

\* The loop of findQueueFamilies from family i on (i counts from 0 as in the
\* source; the sequence is indexed from 1).
RECURSIVE findQueueFamiliesFrom(_, _, _)
findQueueFamiliesFrom(queue_families, i, indices) ==
    IF i >= Len(queue_families)
    THEN indices
    ELSE LET queue_family == queue_families[i + 1]
             assigned ==
                 [graphics_family |-> IF queue_family.graphics
                                      THEN i ELSE indices.graphics_family,
                  present_family |-> IF queue_family.present
                                     THEN i ELSE indices.present_family]
         IN  IF isComplete(assigned)
             THEN assigned
             ELSE findQueueFamiliesFrom(queue_families, i + 1, assigned)

\* VulkanContext::findQueueFamilies
findQueueFamilies(device) ==
    findQueueFamiliesFrom(device.queue_families, 0,
                          [graphics_family |-> NoIndex, present_family |-> NoIndex])

isDeviceSuitableAlways(device) == TRUE

\* VulkanContext::isDeviceSuitable: the swap-chain support is queried only when
\* the extensions are supported.
isDeviceSuitable(device) ==
    LET indices == findQueueFamilies(device)
        extensions_supported == device.extensions
        swap_chain_adequate ==
            IF extensions_supported
            THEN device.formats /\ device.present_modes
            ELSE FALSE
    IN  isComplete(indices) /\ extensions_supported /\ swap_chain_adequate

AfterStepContinues(outcome, next) == next

\* if (!step()) return false; an exception leaves the function as well. Both
\* end in the destructor of the renderer (main returns or unwinds).
AfterStep(outcome, next) == IF outcome = "ok" THEN next ELSE "cleanup"

Returned(outcome) == IF outcome = "fail" THEN "false" ELSE "thrown"

\* A step of VulkanContext::initialize ends with outcome; control goes to next.
\* The last step's success makes initialize return true to initVulkan; a
\* failure makes initialize, initVulkan and VulkanRenderer::initialize return
\* false (or propagate the exception).
ContextStepEnds(step, outcome, next) ==
    /\ ci_steps' = Append(ci_steps, step)
    /\ init_pc' = AfterStep(outcome, next)
    /\ ci_ret' = IF outcome # "ok" THEN Returned(outcome)
                 ELSE IF step = "createCommandPool" THEN "true" ELSE ci_ret
    /\ ri_ret' = IF outcome # "ok" THEN Returned(outcome) ELSE ri_ret
    /\ ri_steps' = ri_steps

\* A step of initVulkan ends with outcome.
RendererStepEnds(step, outcome, next) ==
    /\ ri_steps' = Append(ri_steps, step)
    /\ init_pc' = AfterStep(outcome, next)
    /\ ri_ret' = IF outcome # "ok" THEN Returned(outcome)
                 ELSE IF step = "ui_overlay" THEN "true" ELSE ri_ret
    /\ UNCHANGED << ci_steps, ci_ret >>

pickVars == << dev_n, dev_i, dev_cur, examined >>

\* VulkanRenderer::initWindow: glfwCreateWindow gives a window or null.
initWindow(ok) ==
    /\ init_pc = "initWindow"
    /\ rnd' = [rnd EXCEPT !.window_ = ok]
    /\ RendererStepEnds("initWindow", IF ok THEN "ok" ELSE "fail", "initVulkan")
    /\ UNCHANGED << vk_ctx, pickVars, faults, notInitVars >>

\* initVulkan: context_ = std::make_shared<VulkanContext>(); context_->initialize
\* starts.
makeContext ==
    /\ init_pc = "initVulkan"
    /\ rnd' = [rnd EXCEPT !.context_ = TRUE]
    /\ ri_steps' = Append(ri_steps, "context")
    /\ init_pc' = "createInstance"
    /\ UNCHANGED << ci_steps, ci_ret, ri_ret, vk_ctx, pickVars, faults,
                    notInitVars >>

\* VulkanContext::createInstance: vk::createInstance inside try.
createInstance(ok) ==
    /\ init_pc = "createInstance"
    /\ vk_ctx' = [vk_ctx EXCEPT !.instance_ = ok]
    /\ ContextStepEnds("createInstance", IF ok THEN "ok" ELSE "fail",
                       "setupDebugMessenger")
    /\ UNCHANGED << rnd, pickVars, faults, notInitVars >>

\* VulkanContext::setupDebugMessenger: true at once without validation layers;
\* else false when the create function is missing or reports a failure.
setupDebugMessenger(ok) ==
    /\ init_pc = "setupDebugMessenger"
    /\ ~vk_ctx.enable_validation_layers_ => ok
    /\ vk_ctx' = [vk_ctx EXCEPT !.debug_messenger_ =
                      vk_ctx.enable_validation_layers_ /\ ok]
    /\ ContextStepEnds("setupDebugMessenger", IF ok THEN "ok" ELSE "fail",
                       "createSurface")
    /\ UNCHANGED << rnd, pickVars, faults, notInitVars >>

\* VulkanContext::createSurface: glfwCreateWindowSurface stores the surface, or
\* a null handle when it fails.
createSurface(ok) ==
    /\ init_pc = "createSurface"
    /\ vk_ctx' = [vk_ctx EXCEPT !.surface_ = ok]
    /\ ContextStepEnds("createSurface", IF ok THEN "ok" ELSE "fail",
                       "pickPhysicalDevice")
    /\ UNCHANGED << rnd, pickVars, faults, notInitVars >>

\* pickPhysicalDevice up to its loop: enumeratePhysicalDevices gives n devices
\* or raises; an empty list makes the step return false.
enumeratePhysicalDevices(n, raised) ==
    /\ init_pc = "pickPhysicalDevice"
    /\ n \in 0 .. MaxDevices
    /\ raised => n = 0
    /\ dev_n' = n
    /\ IF raised \/ n = 0
       THEN ContextStepEnds("pickPhysicalDevice",
                            IF raised THEN "throw" ELSE "fail",
                            "createLogicalDevice")
       ELSE /\ init_pc' = "pick_loop"
            /\ ci_steps' = Append(ci_steps, "pickPhysicalDevice")
            /\ UNCHANGED << ci_ret, ri_ret, ri_steps >>
    /\ UNCHANGED << vk_ctx, rnd, dev_i, dev_cur, examined, faults, notInitVars >>

\* One iteration of the loop of pickPhysicalDevice over the device at position
\* dev_i; after the loop, false when physical_device_ is still null.
examineDevice(device) ==
    /\ init_pc = "pick_loop"
    /\ dev_i < dev_n
    /\ device \in PhysicalDevices
    /\ dev_cur' = device
    /\ dev_i' = dev_i + 1
    /\ examined' = Append(examined, isDeviceSuitable(device))
    /\ IF isDeviceSuitable(device)
       THEN /\ vk_ctx' = [vk_ctx EXCEPT !.physical_device_ = device]
            /\ init_pc' = AfterStep("ok", "createLogicalDevice")
            /\ UNCHANGED << ci_ret, ri_ret >>
       ELSE /\ vk_ctx' = vk_ctx
            /\ IF dev_i + 1 = dev_n
               THEN /\ init_pc' = AfterStep("fail", "createLogicalDevice")
                    /\ ci_ret' = "false"
                    /\ ri_ret' = "false"
               ELSE /\ init_pc' = "pick_loop"
                    /\ UNCHANGED << ci_ret, ri_ret >>
    /\ UNCHANGED << ci_steps, ri_steps, rnd, dev_n, faults, notInitVars >>

\* VulkanContext::createLogicalDevice: findQueueFamilies (getSurfaceSupportKHR
\* can raise) outside try; createDevice and getQueue inside.
createLogicalDevice(outcome) ==
    /\ init_pc = "createLogicalDevice"
    /\ LET indices == findQueueFamilies(vk_ctx.physical_device_)
       IN  vk_ctx' = IF outcome = "ok"
                     THEN [vk_ctx EXCEPT !.device_ = TRUE,
                               !.graphics_queue_ = indices.graphics_family,
                               !.present_queue_ = indices.present_family]
                     ELSE vk_ctx
    /\ ContextStepEnds("createLogicalDevice", outcome, "createSwapChain")
    /\ UNCHANGED << rnd, pickVars, faults, notInitVars >>

\* VulkanContext::createSwapChain: querySwapChainSupport and findQueueFamilies
\* outside try; createSwapchainKHR inside.
createFirstSwapChain(outcome) ==
    /\ init_pc = "createSwapChain"
    /\ vk_ctx' = [vk_ctx EXCEPT !.swap_chain_ = (outcome = "ok")]
    /\ ContextStepEnds("createSwapChain", outcome, "createImageViews")
    /\ UNCHANGED << rnd, pickVars, faults, notInitVars >>

\* VulkanContext::createImageViews: every createImageView inside try.
createImageViews(ok) ==
    /\ init_pc = "createImageViews"
    /\ vk_ctx' = [vk_ctx EXCEPT !.image_views = ok]
    /\ ContextStepEnds("createImageViews", IF ok THEN "ok" ELSE "fail",
                       "createCommandPool")
    /\ UNCHANGED << rnd, pickVars, faults, notInitVars >>

\* VulkanContext::createCommandPool: findQueueFamilies outside try; the pool is
\* created for indices.graphics_family inside try.
createCommandPool(outcome) ==
    /\ init_pc = "createCommandPool"
    /\ LET queue_family_indices == findQueueFamilies(vk_ctx.physical_device_)
       IN  vk_ctx' = IF outcome = "throw"
                     THEN vk_ctx
                     ELSE [vk_ctx EXCEPT
                               !.command_pool_ = (outcome = "ok"),
                               !.pool_family = queue_family_indices.graphics_family]
    /\ ContextStepEnds("createCommandPool", outcome, "createRenderPass")
    /\ UNCHANGED << rnd, pickVars, faults, notInitVars >>

\* The steps of initVulkan after the context: each catches the exceptions of
\* its creation calls and returns false.
RendererSteps ==
    << "createRenderPass", "shader", "material", "createGraphicsPipeline",
       "createDepthResources", "createFramebuffers", "createCommandBuffers",
       "createSyncObjects", "ui_overlay", "initialized" >>

\* What a step leaves in the members: createSyncObjects resizes the three
\* per-slot vectors before its first creation call.
StepLeaves(step, ok) ==
    CASE step = "createRenderPass" -> [rnd EXCEPT !.render_pass_ = ok]
      [] step = "shader" -> [rnd EXCEPT !.shader_ = TRUE]
      [] step = "material" -> [rnd EXCEPT !.material_ = TRUE]
      [] step = "createGraphicsPipeline" -> [rnd EXCEPT !.pipeline = ok]
      [] step = "createDepthResources" -> [rnd EXCEPT !.depth = ok]
      [] step = "createFramebuffers" -> [rnd EXCEPT !.framebuffers = ok]
      [] step = "createCommandBuffers" -> [rnd EXCEPT !.command_buffers = ok]
      [] step = "createSyncObjects" ->
             [rnd EXCEPT !.sync_size = MAX_FRAMES_IN_FLIGHT, !.sync = ok]
      [] step = "ui_overlay" -> [rnd EXCEPT !.ui_overlay_ = TRUE]

\* The k-th step of initVulkan after the context.
initVulkanStep(k, ok) ==
    /\ k \in 1 .. (Len(RendererSteps) - 1)
    /\ init_pc = RendererSteps[k]
    /\ rnd' = StepLeaves(RendererSteps[k], ok)
    /\ RendererStepEnds(RendererSteps[k], IF ok THEN "ok" ELSE "fail",
                        RendererSteps[k + 1])
    /\ UNCHANGED << vk_ctx, pickVars, faults, notInitVars >>

\* main after a successful initialize: the scene is loaded, run() returns and
\* the renderer goes out of scope.
runReturns ==
    /\ init_pc = "initialized"
    /\ init_pc' = "cleanup"
    /\ UNCHANGED << ci_steps, ci_ret, ri_steps, ri_ret, vk_ctx, rnd, pickVars,
                    faults, notInitVars >>

\* What VulkanRenderer::cleanup does that is not defined: with context_ set it
\* calls waitIdle on the device of the context and reads the three per-slot
\* vectors at 0 .. MAX_FRAMES_IN_FLIGHT - 1.
CleanupFaults ==
    IF rnd.context_
    THEN (IF vk_ctx.device_ THEN {} ELSE {"waitIdle on a null device"})
         \cup (IF rnd.sync_size < MAX_FRAMES_IN_FLIGHT
               THEN {"read past the end of a per-slot vector"} ELSE {})
    ELSE {}

\* ~VulkanRenderer: cleanup(), and inside it ~VulkanContext: cleanup(), whose
\* destroy calls are guarded by the handles. An undefined use either crashes
\* the process or goes unnoticed.
RendererCleanup(crashes) ==
    /\ init_pc = "cleanup"
    /\ crashes => CleanupFaults # {}
    /\ faults' = CleanupFaults
    /\ init_pc' = IF crashes THEN "crashed" ELSE "exit"
    /\ rnd' = IF crashes THEN rnd ELSE NullRenderer
    /\ vk_ctx' = IF crashes THEN vk_ctx
                 ELSE [NullContext EXCEPT !.enable_validation_layers_ =
                                              vk_ctx.enable_validation_layers_]
    /\ UNCHANGED << ci_steps, ci_ret, ri_steps, ri_ret, pickVars, notInitVars >>

StepOutcomes == {"ok", "fail", "throw"}

\* main has constructed the renderer; the build enables the validation layers
\* or not.
InitInit ==
    /\ FrameStart(MaxImages, 1)
    /\ swap_chain_image_format_ = "B8G8R8A8Srgb"
    /\ rc_cur = NoOutcome
    /\ rc_prev = NoOutcome
    /\ UploadRest
    /\ init_pc = "initWindow"
    /\ ci_steps = << >>
    /\ ci_ret = "none"
    /\ ri_steps = << >>
    /\ ri_ret = "none"
    /\ \E v \in BOOLEAN :
          vk_ctx = [NullContext EXCEPT !.enable_validation_layers_ = v]
    /\ rnd = NullRenderer
    /\ dev_n = 0
    /\ dev_i = 0
    /\ dev_cur = NoDevice
    /\ examined = << >>
    /\ faults = {}
    /\ td_ix = 0
    /\ destroyed = << >>
    /\ pipeline_layouts = 0

NextInit ==
    \/ \E ok \in BOOLEAN : initWindow(ok)
    \/ makeContext
    \/ \E ok \in BOOLEAN : createInstance(ok)
    \/ \E ok \in BOOLEAN : setupDebugMessenger(ok)
    \/ \E ok \in BOOLEAN : createSurface(ok)
    \/ \E n \in 0 .. MaxDevices, raised \in BOOLEAN : enumeratePhysicalDevices(n, raised)
    \/ \E device \in PhysicalDevices : examineDevice(device)
    \/ \E outcome \in StepOutcomes : createLogicalDevice(outcome)
    \/ \E outcome \in StepOutcomes : createFirstSwapChain(outcome)
    \/ \E ok \in BOOLEAN : createImageViews(ok)
    \/ \E outcome \in StepOutcomes : createCommandPool(outcome)
    \/ \E k \in 1 .. (Len(RendererSteps) - 1), ok \in BOOLEAN : initVulkanStep(k, ok)
    \/ runReturns
    \/ \E crashes \in BOOLEAN : RendererCleanup(crashes)

SpecInit == InitInit /\ [][NextInit]_vars

\* ------------------------------------------- owners of an image and memory
\* The image and memory pair of an owner through creation, recreation and
\* teardown. up_kind names the owner operation the pair is in.
ImageOwners == {"Texture", "SkyBox", "VulkanRenderer"}

\* A handle through a destroy or free call: a null handle stays null, any
\* other is no longer live.
Released(handle, state) == IF handle = "null" THEN "null" ELSE state

\* VulkanRenderer::recreateSwapChain on the depth resources: destroyImageView,
\* destroyImage and freeMemory without a test, the members keep the old
\* handles; after the swap chain, createDepthResources() starts and its result
\* is not read.
RecreateDepthResources ==
    /\ up_state = "idle"
    /\ \/ i_pc = "true"
       \/ i_pc = "false" /\ up_kind = "recreateDepth"
    /\ image_' = [image_ EXCEPT !.image = Released(@, "destroyed"),
                                !.memory = Released(@, "freed"),
                                !.bound = FALSE, !.view = FALSE]
    /\ up_kind' = "recreateDepth"
    /\ properties' = {"DeviceLocal"}
    /\ i_pc' = "create"
    /\ UNCHANGED << up_ix, up_state, mem_types, type_filter, found >>
    /\ UNCHANGED << frameVars, oneShotVars, bufVars >>

\* Texture::cleanup and the depth part of VulkanRenderer::cleanup test each
\* handle and destroy it; SkyBox::cleanup destroys the image and frees the
\* memory when the image handle is set.
ReleasedBy(owner) ==
    IF owner = "SkyBox"
    THEN IF image_.image # "null"
         THEN [image_ EXCEPT !.image = "destroyed",
                             !.memory = Released(@, "freed"),
                             !.bound = FALSE, !.view = FALSE, !.sampler = FALSE]
         ELSE [image_ EXCEPT !.view = FALSE, !.sampler = FALSE]
    ELSE [image_ EXCEPT !.image = Released(@, "destroyed"),
                        !.memory = Released(@, "freed"),
                        !.bound = FALSE, !.view = FALSE, !.sampler = FALSE]

\* The owner is torn down after its creation call returned or raised.
OwnerCleanup(owner) ==
    /\ up_state = "idle"
    /\ i_pc \in {"true", "false", "thrown"}
    /\ owner \in ImageOwners
    /\ up_kind = "recreateDepth" => owner = "VulkanRenderer"
    /\ image_' = ReleasedBy(owner)
    /\ up_kind' = "cleanup"
    /\ i_pc' = "released"
    /\ UNCHANGED << up_ix, up_state, memVars >>
    /\ UNCHANGED << frameVars, oneShotVars, bufVars >>

NextOwner ==
    \/ CreateImageCall
    \/ \E ok \in BOOLEAN : ImgCreate(ok)
    \/ \E filter \in TypeFilters : ImgFindMemoryType(filter)
    \/ \E ok \in BOOLEAN : ImgAllocate(ok)
    \/ \E ok \in BOOLEAN : ImgBind(ok)
    \/ RecreateDepthResources
    \/ \E owner \in ImageOwners : OwnerCleanup(owner)

SpecOwner == InitImage /\ [][NextOwner]_vars

\* ------------------------------------------------- teardown, step by step
\* ~VulkanRenderer after initialization and the loads of main, one destroy
\* call (or group of calls on one kind of object) at a time.

\* main after a successful initialize: loadModel makes mesh_, loadTexture
\* hands a texture to the material, createDefaultSkyBox makes skybox_,
\* skybox_shader_ and the skybox pipeline; a failed loadModel or
\* createDefaultSkyBox makes main return, a failed loadTexture does not. Then
\* run() returns or raises and the renderer goes out of scope.
mainLoads(mesh, texture, skybox) ==
    /\ init_pc = "initialized"
    /\ ~mesh => ~texture /\ ~skybox
    /\ rnd' = [rnd EXCEPT !.mesh_ = mesh, !.texture_ = texture,
                          !.skybox_ = skybox, !.skybox_shader_ = skybox,
                          !.skybox_pipeline = skybox]
    /\ init_pc' = "cleanup"
    /\ UNCHANGED << ci_steps, ci_ret, ri_steps, ri_ret, vk_ctx, pickVars,
                    faults, notInitVars >>

TeardownStepsContextFirst ==
    << "context_", "image_views", "swap_chain_", "command_pool_", "device_",
       "debug_messenger_", "surface_", "instance_",
       "ui_overlay_", "waitIdle", "sync", "depth", "framebuffers", "pipeline",
       "skybox_pipeline", "render_pass_", "mesh_", "shader_", "material_",
       "texture_", "skybox_", "skybox_shader_", "window_" >>

\* The statements of VulkanRenderer::cleanup in program order, with those of
\* VulkanContext::cleanup and cleanupSwapChain where context_.reset() runs
\* them; the texture goes with the material that holds it.
TeardownSteps ==
    << "ui_overlay_", "waitIdle", "sync", "depth", "framebuffers", "pipeline",
       "skybox_pipeline", "render_pass_", "mesh_", "shader_", "material_",
       "texture_", "skybox_", "skybox_shader_", "context_",
       "image_views", "swap_chain_", "command_pool_", "device_",
       "debug_messenger_", "surface_", "instance_", "window_" >>

RendererDeviceObjects ==
    {"sync", "depth", "framebuffers", "pipeline", "skybox_pipeline",
     "render_pass_"}
ResourceOwners ==
    {"ui_overlay_", "mesh_", "shader_", "material_", "texture_", "skybox_",
     "skybox_shader_"}
ContextDeviceObjects == {"image_views", "swap_chain_", "command_pool_", "device_"}
ContextInstanceObjects == {"debug_messenger_", "surface_", "instance_"}

\* The member a step tests is set.
MemberSet(step) ==
    IF step \in ContextDeviceObjects \cup ContextInstanceObjects
    THEN vk_ctx[step]
    ELSE rnd[step]

\* The conditions under which the statement of a step destroys its object:
\* the block under if (context_), the unique_ptr resets, and in the context
\* (members all null when it was never made) the blocks under if (device_)
\* and if (instance_).
Destroys(step) ==
    CASE step \in {"waitIdle", "context_"} -> FALSE
      [] step = "ui_overlay_" -> rnd.context_ /\ rnd.ui_overlay_
      [] step \in RendererDeviceObjects -> rnd.context_ /\ rnd[step]
      [] step \in ResourceOwners \ {"ui_overlay_"} -> rnd[step]
      [] step \in ContextDeviceObjects -> vk_ctx.device_ /\ vk_ctx[step]
      [] step = "debug_messenger_" ->
             /\ vk_ctx.instance_
             /\ vk_ctx.enable_validation_layers_ /\ vk_ctx.debug_messenger_
      [] step \in {"surface_", "instance_"} -> vk_ctx.instance_ /\ vk_ctx[step]
      [] step = "window_" -> rnd.window_

\* The use a step makes that is not defined: waitIdle on the null device of a
\* context that did not get as far as its device, and the reads of the three
\* per-slot vectors before createSyncObjects has sized them.
StepFault(step) ==
    CASE step = "waitIdle" -> rnd.context_ /\ ~vk_ctx.device_
      [] step = "sync" -> rnd.context_ /\ rnd.sync_size < MAX_FRAMES_IN_FLIGHT
      [] OTHER -> FALSE

\* One step of the teardown: the object is destroyed when its conditions
\* hold. A reset unique_ptr or shared_ptr is null afterwards; the destroy
\* calls leave the handle members as they were. An undefined use crashes the
\* process or goes unnoticed. The locals of pickPhysicalDevice are long out of
\* scope.
TeardownStep(crashes) ==
    /\ init_pc = "cleanup"
    /\ td_ix < Len(TeardownSteps)
    /\ LET step == TeardownSteps[td_ix + 1]
       IN  /\ crashes => StepFault(step)
           /\ faults' = IF StepFault(step) THEN faults \cup {step} ELSE faults
           /\ IF crashes
              THEN /\ init_pc' = "crashed"
                   /\ UNCHANGED << td_ix, destroyed, rnd, vk_ctx >>
              ELSE /\ td_ix' = td_ix + 1
                   /\ init_pc' = IF td_ix + 1 = Len(TeardownSteps)
                                 THEN "exit" ELSE "cleanup"
                   /\ destroyed' = IF Destroys(step)
                                   THEN Append(destroyed, step) ELSE destroyed
                   /\ rnd' = IF step \in ResourceOwners \cup {"context_"}
                             THEN [rnd EXCEPT ![step] = FALSE]
                             ELSE rnd
                   /\ vk_ctx' = vk_ctx
    /\ dev_n' = 0
    /\ dev_i' = 0
    /\ dev_cur' = NoDevice
    /\ examined' = << >>
    /\ UNCHANGED << ci_steps, ci_ret, ri_steps, ri_ret, runVars,
                    pipeline_layouts >>

NextTeardown ==
    \/ \E ok \in BOOLEAN : initWindow(ok)
    \/ makeContext
    \/ \E ok \in BOOLEAN : createInstance(ok)
    \/ \E ok \in BOOLEAN : setupDebugMessenger(ok)
    \/ \E ok \in BOOLEAN : createSurface(ok)
    \/ \E n \in 0 .. MaxDevices, raised \in BOOLEAN : enumeratePhysicalDevices(n, raised)
    \/ \E device \in PhysicalDevices : examineDevice(device)
    \/ \E outcome \in StepOutcomes : createLogicalDevice(outcome)
    \/ \E outcome \in StepOutcomes : createFirstSwapChain(outcome)
    \/ \E ok \in BOOLEAN : createImageViews(ok)
    \/ \E outcome \in StepOutcomes : createCommandPool(outcome)
    \/ \E k \in 1 .. (Len(RendererSteps) - 1), ok \in BOOLEAN : initVulkanStep(k, ok)
    \/ \E mesh, texture, skybox \in BOOLEAN : mainLoads(mesh, texture, skybox)
    \/ \E crashes \in BOOLEAN : TeardownStep(crashes)

SpecTeardown == InitInit /\ [][NextTeardown]_vars

\* ---------------------------------------------------------------- progress
\* The steps of the program thread: it runs whenever it is not blocked in a
\* wait. The window system (WindowResized) is under no obligation to act.
CpuNext ==
    \/ framebufferResizeCallback
    \/ MainLoopIter
    \/ MainLoopExit
    \/ WaitForFences
    \/ \E r \in AcquireResults, i \in 0 .. (MaxImages - 1) : AcquireOk(r, i)
    \/ AcquireOutOfDate
    \/ AcquireError
    \/ UpdateUniforms
    \/ ResetFences
    \/ ResetCommandBuffer
    \/ RecordCommands
    \/ EndCommandBuffer
    \/ QueueSubmit
    \/ \E r \in PresentResults : QueuePresent(r)
    \/ AdvanceFrame
    \/ RendererWaitIdle
    \/ RendererDestroy
    \/ ContextGetSize
    \/ ContextLoopGetSize
    \/ ContextWaitEvents
    \/ ContextWaitIdle
    \/ cleanupSwapChain
    \/ \E n \in ImageCounts, d \in BOOLEAN : createSwapChain(n, d)
    \/ RendererRebuild
    \/ ExitWaitIdle
    \/ Unwind
    \/ CleanupOverlay
    \/ CleanupWaitIdle
    \/ CleanupDestroy

\* The steps of the graphics queue and the presentation engine: every
\* submission and present request whose waits are satisfied makes progress.
GpuNext ==
    \/ \E s \in Slots : PresentEngineRelease(s)
    \/ \E k \in 1 .. MaxFrames : GpuBeginColor(k)
    \/ \E k \in 1 .. MaxFrames : GpuComplete(k)
    \/ PresentExecute

SpecLive == Spec /\ WF_vars(CpuNext) /\ WF_vars(GpuNext)

\* Frames and recreations with the window left alone: no resize event is
\* queued, so the wait loop of a minimized window is not entered.
CpuFrames ==
    \/ MainLoopIter
    \/ MainLoopExit
    \/ WaitForFences
    \/ \E r \in AcquireResults, i \in 0 .. (MaxImages - 1) : AcquireOk(r, i)
    \/ AcquireOutOfDate
    \/ AcquireError
    \/ UpdateUniforms
    \/ ResetFences
    \/ ResetCommandBuffer
    \/ RecordCommands
    \/ EndCommandBuffer
    \/ QueueSubmit
    \/ \E r \in PresentResults : QueuePresent(r)
    \/ AdvanceFrame
    \/ RendererWaitIdle
    \/ RendererDestroy
    \/ ContextGetSize
    \/ ContextWaitIdle
    \/ cleanupSwapChain
    \/ \E n \in ImageCounts, d \in BOOLEAN : createSwapChain(n, d)
    \/ RendererRebuild
    \/ ExitWaitIdle
    \/ Unwind
    \/ CleanupOverlay
    \/ CleanupWaitIdle
    \/ CleanupDestroy

NextFrames == CpuFrames \/ GpuNext

SpecFrames ==
    /\ Init
    /\ [][NextFrames]_vars
    /\ WF_vars(CpuFrames)
    /\ WF_vars(GpuNext)

\* ------------------------------------------ objects a recreation replaces
\* The rebuild half of VulkanRenderer::recreateSwapChain with the pipeline
\* layouts counted: createGraphicsPipeline assigns pipeline_layout_ a new
\* layout and, with skybox_ set as main leaves it, createSkyBoxPipeline
\* assigns skybox_pipeline_layout_ a new one; the destroy half of
\* recreateSwapChain destroys the two pipelines and no layout.
RendererRebuildObjects ==
    /\ pc = "r_rebuild"
    /\ depth_live' = TRUE
    /\ swap_chain_framebuffers_' = createFramebuffers
    /\ pipelines_live' = TRUE
    /\ pipeline_layouts' = pipeline_layouts + 2
    /\ CpuStep(IF recreate_from = "acquire" THEN "poll" ELSE "advance", "rebuild")
    /\ recreate_from' = "none"
    /\ UNCHANGED << current_frame_, framebuffer_resized_, image_index,
                    command_buffers_, ctx_size, frameNo,
                    start_frame, acq_result, pres_result,
                    swap_chain_, swap_chain_image_views_, sync_live, overlay_live >>
    /\ UNCHANGED << gpuVars, envVars >>
    /\ UNCHANGED << upVars, surfVars >>
    /\ UNCHANGED << init_pc, ci_steps, ci_ret, ri_steps, ri_ret, vk_ctx, rnd,
                    dev_n, dev_i, dev_cur, examined, faults, td_ix, destroyed >>

\* The frame loop while it runs, with the window left alone.
NextReplace ==
    \/ MainLoopIter
    \/ WaitForFences
    \/ \E r \in AcquireResults, i \in 0 .. (MaxImages - 1) : AcquireOk(r, i)
    \/ AcquireOutOfDate
    \/ AcquireError
    \/ UpdateUniforms
    \/ ResetFences
    \/ ResetCommandBuffer
    \/ RecordCommands
    \/ EndCommandBuffer
    \/ QueueSubmit
    \/ \E r \in PresentResults : QueuePresent(r)
    \/ AdvanceFrame
    \/ RendererWaitIdle
    \/ RendererDestroy
    \/ ContextGetSize
    \/ ContextWaitIdle
    \/ cleanupSwapChain
    \/ \E n \in ImageCounts, d \in BOOLEAN : createSwapChain(n, d)
    \/ RendererRebuildObjects
    \/ GpuNext

SpecReplace == Init /\ [][NextReplace]_vars

\* ================================================================== claims
InTrace(step) == \E j \in 1 .. Len(trace) : trace[j] = step
Before(a, b) == \E j, l \in 1 .. Len(trace) : j < l /\ trace[j] = a /\ trace[l] = b
Count(step) == Cardinality({j \in 1 .. Len(trace) : trace[j] = step})

RecreatePcs == {"r_waitidle", "r_destroy", "c_getsize", "c_loop_get",
                "c_waitevents", "c_waitidle", "c_cleanup", "c_create", "r_rebuild"}
DestroyedPcs == RecreatePcs \ {"r_waitidle"}

\* ---- C1
C1_NoOverlap ==
    /\ \A k \in 1 .. Len(queue) : command_buffers_[queue[k].cb].st = "executable"
    /\ pc \in {"update_uniforms", "reset_fence"} =>
          /\ in_flight_fences_[current_frame_]
          /\ \A k \in 1 .. Len(queue) : queue[k].cb # current_frame_
    /\ pc \in {"reset_cmd", "record", "end_cmd"} =>
          /\ Before("wait", "fence_reset")
          /\ \A k \in 1 .. Len(queue) : queue[k].cb # current_frame_

C1_FenceSignal ==
    \A s \in Slots :
        (~in_flight_fences_[s] /\ in_flight_fences_'[s]) =>
            \E k \in 1 .. Len(queue) :
                /\ queue' = RemoveAt(queue, k)
                /\ queue[k].phase = "color"
                /\ queue[k].slot = s
                /\ \A l \in 1 .. Len(queue) :
                      queue[l].slot = s => queue[l].frame <= queue[k].frame

\* C1: the command buffer of a frame slot is never reset or re-recorded while
\* a submission referencing it is outstanding; each reset/recording follows, in
\* the same drawFrame call, a completed wait on that slot's fence; and a fence
\* becomes signaled only when the latest submission of its slot completes.
C1_FenceGuardsCommandBuffer == [] C1_NoOverlap /\ [][C1_FenceSignal]_vars

\* Slot 0 is re-recorded for its second use while the other slot's submission
\* is still outstanding on a slow GPU.
C1_Witness ==
    /\ pc = "end_cmd"
    /\ frameNo = 3
    /\ current_frame_ = 0
    /\ command_buffers_[0].st = "recording"
    /\ Len(queue) = 1
    /\ queue[1].cb = 1

\* ---- C2
\* C2: when acquire reports out-of-date, drawFrame triggers the recreation
\* and returns with no fence reset, no command-buffer reset or recording, no
\* submission, no present, and current_frame_ unchanged.
C2_OutOfDateAcquireAborts ==
    acq_result = "out_of_date" /\ pc # "acquire" =>
        /\ ~InTrace("fence_reset")
        /\ ~InTrace("cmd_reset")
        /\ ~InTrace("record")
        /\ ~InTrace("submit")
        /\ ~InTrace("present")
        /\ pc \notin {"update_uniforms", "reset_fence", "reset_cmd", "record",
                      "end_cmd", "submit", "present", "advance"}
        /\ current_frame_ = start_frame
        /\ in_flight_fences_[current_frame_]
        /\ \A k \in 1 .. Len(queue) : queue[k].frame # frameNo
        /\ \A k \in 1 .. Len(presentQ) : presentQ[k].frame # frameNo
        /\ pc = "poll" =>
              trace = << "wait", "acquire", "recreate", "destroy", "rebuild" >>

\* A drawFrame call on slot 1 has returned after an out-of-date acquire.
C2_Witness ==
    /\ pc = "poll"
    /\ acq_result = "out_of_date"
    /\ current_frame_ = 1
    /\ InTrace("rebuild")

\* ---- C3
C3_SubmitStep ==
    Len(queue') = Len(queue) + 1 =>
        LET sub == queue'[Len(queue')] IN
        /\ trace = << "wait", "acquire", "update_uniforms", "fence_reset",
                      "cmd_reset", "record", "end" >>
        /\ acq_result = "acquired"
        /\ ~in_flight_fences_[current_frame_]
        /\ sub.fence = current_frame_
        /\ sub.signalSem = current_frame_
        /\ sub.waitSem = current_frame_
        /\ sub.waitStage = "ColorAttachmentOutput"
        /\ image_available_semaphores_[sub.waitSem].st \in {"pending", "signaled"}
        /\ image_available_semaphores_[sub.waitSem].frame = sub.frame
        /\ sub.frame = frameNo

C3_CompleteStep ==
    \A k \in 1 .. Len(queue) :
        (queue[k].phase = "color" /\ queue' = RemoveAt(queue, k)) =>
            /\ render_finished_semaphores_' =
                  [render_finished_semaphores_ EXCEPT ![queue[k].slot] =
                      [st |-> "signaled", frame |-> queue[k].frame]]
            /\ in_flight_fences_' = [in_flight_fences_ EXCEPT ![queue[k].slot] = TRUE]
            /\ UNCHANGED image_available_semaphores_

\* C3: every submission of drawFrame for slot s follows the fence wait, a
\* successful acquire and the reset of the slot's fence, waits on exactly the
\* image-available semaphore of s (the one given to this frame's acquire) at
\* the color-attachment-output stage, and on completion signals exactly the
\* render-finished semaphore and the fence of s.
C3_SubmissionShape == [][C3_SubmitStep /\ C3_CompleteStep]_vars

\* The second frame (slot 1) has just been submitted and is still queued.
C3_Witness ==
    /\ pc = "present"
    /\ frameNo = 2
    /\ Len(queue) >= 1
    /\ queue[Len(queue)].slot = 1
    /\ queue[Len(queue)].frame = 2

\* ---- C4
C4_ColorAfterImageAvailable ==
    \A k \in 1 .. Len(queue) :
        queue[k].phase = "color" =>
            /\ queue[k].fb \in DOMAIN images
            /\ images[queue[k].fb].owner = queue[k].frame
            /\ images[queue[k].fb].st = "acq"

C4_PresentAfterRenderFinished ==
    (presentQ # << >> /\ presentQ' = Tail(presentQ)) =>
        /\ Head(presentQ).image \in DOMAIN images
        /\ images[Head(presentQ).image].owner = Head(presentQ).frame
        /\ images[Head(presentQ).image].rendered

\* C4: within a frame the GPU's color output to the acquired image starts only
\* after the presentation engine released that image to this frame's acquire,
\* and the present of the image is executed only after this frame's rendering
\* into it has completed.
C4_FrameOrdering == [] C4_ColorAfterImageAvailable /\ [][C4_PresentAfterRenderFinished]_vars

\* The CPU has run ahead: frame 1 is writing color output on the GPU while
\* the present of frame 1 is queued behind it and frame 2 is being recorded.
C4_Witness ==
    /\ Len(queue) = 1
    /\ queue[1].phase = "color"
    /\ queue[1].frame = 1
    /\ Len(presentQ) = 1
    /\ frameNo = 2
    /\ pc = "record"

\* ---- C5
C5_RecreateOnlyAfterPresent ==
    pc \in RecreatePcs =>
        \/ /\ recreate_from = "acquire"
           /\ acq_result = "out_of_date"
           /\ ~InTrace("present")
        \/ /\ recreate_from = "present"
           /\ acq_result = "acquired"
           /\ Before("submit", "present")
           /\ \A j \in 1 .. Len(trace) :
                 trace[j] \in {"recreate", "destroy", "rebuild"} =>
                     \E l \in 1 .. (j - 1) : trace[l] = "present"

C5_PresentStep ==
    (pc = "present" /\ pc' # "present") =>
        /\ (pres_result' \in {"out_of_date", "suboptimal"} \/ framebuffer_resized_) =>
              /\ pc' = "r_waitidle"
              /\ recreate_from' = "present"
              /\ Len(presentQ') = Len(presentQ) + 1
        /\ pc' = "r_waitidle" =>
              pres_result' \in {"out_of_date", "suboptimal"} \/ framebuffer_resized_

C5_PresentTriggersRecreate ==
    (pc \in {"advance", "poll"} /\ InTrace("present")
        /\ (pres_result \in {"out_of_date", "suboptimal"} \/ InTrace("recreate"))) =>
        /\ Before("present", "recreate")
        /\ Before("recreate", "destroy")
        /\ Before("destroy", "rebuild")
        /\ swap_chain_.live
        /\ depth_live
        /\ pipelines_live
        /\ swap_chain_framebuffers_.count = swap_chain_.count

C6_IdleWhileDestroyed ==
    pc \in DestroyedPcs => queue = << >> /\ presentQ = << >>

C6_DestroyStep ==
    (/\ pc \in RecreatePcs
     /\ \/ swap_chain_framebuffers_'.count < swap_chain_framebuffers_.count
        \/ depth_live /\ ~depth_live'
        \/ pipelines_live /\ ~pipelines_live'
        \/ swap_chain_image_views_' < swap_chain_image_views_
        \/ swap_chain_.live /\ ~swap_chain_'.live) =>
        /\ queue = << >>
        /\ presentQ = << >>
        /\ InTrace("recreate")
        /\ ~Before("recreate", "submit")

\* C6: when the recreation destroys framebuffers, depth resources, pipelines,
\* image views or the swap chain, no submission is outstanding: a device-idle
\* wait completed after the last submission and before the first destroy, on
\* the acquire-time and on the present-time path.
C6_DestroyOnlyWhenIdle == [] C6_IdleWhileDestroyed /\ [][C6_DestroyStep]_vars

\* Present-time recreation of a frame that had submitted work: the swap chain
\* and the depth resources are destroyed.
C6_Witness ==
    /\ pc = "c_create"
    /\ recreate_from = "present"
    /\ InTrace("submit")
    /\ ~depth_live
    /\ ~swap_chain_.live

C8_SlotAndImageIndependent ==
    /\ current_frame_ \in Slots
    /\ \A k \in 1 .. Len(queue) :
          /\ queue[k].slot \in Slots
          /\ queue[k].cb = queue[k].slot
          /\ queue[k].fence = queue[k].slot
          /\ queue[k].waitSem = queue[k].slot
          /\ queue[k].signalSem = queue[k].slot
          /\ queue[k].fb \in DOMAIN images
          /\ images[queue[k].fb].owner = queue[k].frame
    /\ \A k \in 1 .. Len(presentQ) :
          /\ presentQ[k].waitSem = presentQ[k].slot
          /\ presentQ[k].slot \in Slots
          /\ presentQ[k].image \in DOMAIN images
          /\ images[presentQ[k].image].owner = presentQ[k].frame
    /\ pc \in {"end_cmd", "submit"} =>
          /\ images[command_buffers_[current_frame_].fb].owner = frameNo
          /\ command_buffers_[current_frame_].fb = image_index

\* Slot 0 renders into swap-chain image 2 while slot 1 renders into image 0.
C8_Witness ==
    /\ Len(queue) = 2
    /\ queue[1].slot = 0
    /\ queue[1].fb = 2
    /\ queue[2].slot = 1
    /\ queue[2].fb = 0

\* ---- C9
C9_CallbackStep ==
    (event_pending /\ ~event_pending') =>
        /\ framebuffer_resized_'
        /\ UNCHANGED << current_frame_, image_index, command_buffers_, ctx_size,
                        recreate_from, fb_size >>
        /\ UNCHANGED << gpuVars, resVars, callVars >>
        /\ pc' = pc \/ (pc = "c_waitevents" /\ pc' \in {"c_loop_get", "c_waitidle"})

C9_RecreateFromDrawFrame ==
    /\ (pc' = "r_waitidle" /\ pc # "r_waitidle") => pc \in {"acquire", "present"}
    /\ (pc' = "c_waitidle" /\ pc # "c_waitidle") => pc \in {"c_getsize", "c_waitevents"}
    /\ (resVars' # resVars) =>
          pc \in {"r_destroy", "c_cleanup", "c_create", "r_rebuild",
                  "cleanup", "cleanup_destroy"}

\* C9: the resize callback only sets framebuffer_resized_; recreation and the
\* device-idle waits start only inside drawFrame, wherever in the loop the
\* callback arrives.
C9_CallbackOnlySetsFlag == [][C9_CallbackStep /\ C9_RecreateFromDrawFrame]_vars

\* The callback has run and the frame that follows it is about to submit:
\* everything built on the swap chain is still alive.
C9_Witness ==
    /\ pc = "submit"
    /\ framebuffer_resized_
    /\ ~event_pending
    /\ depth_live
    /\ swap_chain_framebuffers_.count = swap_chain_.count

\* ---- C10
\* C10: the command buffer beginSingleTimeCommands allocated is back in the
\* pool on every exit of the operation, by return or by exception.
C10_OneShotFreedOnEveryExit ==
    u_pc \in {"returned", "thrown"} => pool_cbs = 0

\* ---- C11
C11_ReturnedMeansComplete ==
    u_pc \in {"os_free", "returned"} => gpu_oneshot = "idle"

C11_ReleaseStep ==
    /\ pool_cbs' < pool_cbs => gpu_oneshot = "idle"
    /\ (bufs["staging"].buffer = "live" /\ bufs'["staging"].buffer # "live") =>
          gpu_oneshot = "idle"
    /\ (bufs["staging"].memory = "live" /\ bufs'["staging"].memory # "live") =>
          gpu_oneshot = "idle"

\* C11: when endSingleTimeCommands returns the one-shot GPU work has completed;
\* no one-shot command buffer is freed and no staging buffer or staging memory
\* is destroyed while one-shot work is still executing on the queue.
C11_OneShotCompleteOnReturn ==
    [] C11_ReturnedMeansComplete /\ [][C11_ReleaseStep]_vars

\* A mesh vertex upload has copied, freed its command buffer and destroyed its
\* staging buffer.
C11_Witness ==
    /\ up_kind = "meshVertex"
    /\ Running
    /\ CurStep.op = "return"
    /\ recorded.cmd = "copyBuffer"
    /\ cb_state = "freed"
    /\ bufs["staging"].buffer = "destroyed"

\* ---- C12
\* C12: when an upload operation has ended, by returning true or false or by
\* an exception, its staging buffer and the staging memory are not live.
C12_StagingDestroyedOnEveryExit ==
    up_state \in {"true", "false", "thrown"} =>
        /\ bufs["staging"].buffer # "live"
        /\ bufs["staging"].memory # "live"

\* ---- C13
\* C13: when no memory type fits the filter and the requested flags,
\* createBuffer returns false to its caller and the buffer it had created has
\* been destroyed.
C13_NoMemoryTypeFailsClean ==
    (b_pc \notin {"idle", "create", "find"} /\ found.called /\ ~found.ok) =>
        /\ b_pc = "false"
        /\ bufs[b_target].buffer = "destroyed"

\* ---- C14
\* C14: createBuffer ends in one of two ways: it returns true with a live
\* buffer bound to a live memory allocation, or it returns false with neither
\* the buffer nor memory allocated by the call left live, whether the failure
\* was at buffer creation, at memory allocation or at memory binding.
C14_CreateBufferAllOrNothing ==
    /\ b_pc = "true" =>
          /\ bufs[b_target].buffer = "live"
          /\ bufs[b_target].memory = "live"
          /\ bufs[b_target].bound
    /\ b_pc = "false" =>
          /\ bufs[b_target].buffer # "live"
          /\ bufs[b_target].memory # "live"

\* ---- C15
\* C15: an image creation that fails after the image was created (memory-type
\* lookup, allocation or binding) ends by returning false, never by an
\* exception, and by then the image and the memory allocated for it have been
\* destroyed.
C15_PartialImageDestroyed ==
    /\ i_pc # "thrown"
    /\ i_pc = "false" =>
          /\ image_.image # "live"
          /\ image_.memory # "live"

\* ---- C16
C16_Qualifying ==
    {i \in 0 .. (Len(mem_types) - 1) :
        /\ (type_filter \div (2 ^ i)) % 2 = 1
        /\ properties \subseteq mem_types[i + 1]}

\* C16: findMemoryType returns the lowest index whose filter bit is set and
\* whose property flags include every requested flag, and fails exactly when
\* no index qualifies; it never returns an index that does not qualify.
C16_FindMemoryTypeLowestMatch ==
    found.called =>
        IF C16_Qualifying = {}
        THEN ~found.ok
        ELSE /\ found.ok
             /\ found.index \in C16_Qualifying
             /\ \A j \in C16_Qualifying : found.index <= j

\* Type 0 has the requested flags but is filtered out, so index 1 is returned.
C16_Witness ==
    /\ found.called
    /\ found.ok
    /\ found.index = 1
    /\ properties # {}
    /\ properties \subseteq mem_types[1]
    /\ type_filter % 2 = 0

\* ---- C17
C17_Accepted ==
    (u_op.kind = "transitionImageLayout" /\ recorded.cmd = "pipelineBarrier") =>
        \/ /\ u_op.old = "Undefined" /\ u_op.new = "TransferDstOptimal"
           /\ recorded.barrier = [srcAccess |-> "None", dstAccess |-> "TransferWrite",
                                  srcStage |-> "TopOfPipe", dstStage |-> "Transfer"]
        \/ /\ u_op.old = "TransferDstOptimal" /\ u_op.new = "ShaderReadOnlyOptimal"
           /\ recorded.barrier = [srcAccess |-> "TransferWrite", dstAccess |-> "ShaderRead",
                                  srcStage |-> "Transfer", dstStage |-> "FragmentShader"]

C17_Rejected ==
    (/\ u_op.kind = "transitionImageLayout"
     /\ u_pc \notin {"begin", "body"}
     /\ ~ \/ u_op.old = "Undefined" /\ u_op.new = "TransferDstOptimal"
          \/ u_op.old = "TransferDstOptimal" /\ u_op.new = "ShaderReadOnlyOptimal") =>
        /\ u_pc = "thrown"
        /\ recorded = NoCommand
        /\ cb_state = "recording"
        /\ gpu_oneshot = "idle"

C17_TwoPairsProceed ==
    (/\ u_op.kind = "transitionImageLayout"
     /\ u_pc \notin {"begin", "body"}
     /\ \/ u_op.old = "Undefined" /\ u_op.new = "TransferDstOptimal"
        \/ u_op.old = "TransferDstOptimal" /\ u_op.new = "ShaderReadOnlyOptimal") =>
        recorded.cmd = "pipelineBarrier"

\* C17: transitionImageLayout records a barrier for exactly the pairs
\* undefined -> transfer-destination and transfer-destination -> shader-read-only,
\* each with its fixed access masks and stages; for any other pair it throws
\* with no barrier recorded and nothing submitted.
C17_TransitionPolicy == C17_Accepted /\ C17_Rejected /\ C17_TwoPairsProceed

\* The barrier of the transition to shader-read-only is on the queue.
C17_Witness ==
    /\ u_pc = "os_wait"
    /\ u_op.kind = "transitionImageLayout"
    /\ u_op.new = "ShaderReadOnlyOptimal"
    /\ recorded.barrier.dstStage = "FragmentShader"

\* ---- C18
\* The step of VulkanContext::recreateSwapChain that creates the swap chain.
C18_CreateStep ==
    (pc = "c_create" /\ pc' = "r_rebuild") =>
        /\ fb_size # 0
        /\ swap_chain_'.extent # 0

\* C18: VulkanContext::recreateSwapChain never creates a swap chain while the
\* framebuffer size is zero, and the swap chain it creates has a nonzero
\* extent, whatever window size changes arrive while it waits.
C18_NoZeroExtentSwapChain == [][C18_CreateStep]_vars

\* ---- C19
\* C19 (as stated): the swap chain is already destroyed while
\* recreateSwapChain waits for a nonzero framebuffer size.
C19_DestroyBeforeSizeWait ==
    pc \in {"c_loop_get", "c_waitevents"} =>
        (~swap_chain_.live /\ swap_chain_image_views_ = 0)

\* C19 (amended): VulkanContext::recreateSwapChain first waits until it has
\* read a nonzero framebuffer size, then blocks until the device is idle, then
\* destroys the swap-chain image views and the swap chain, then creates the
\* new swap chain and its image views.
C19_SizeIdleDestroyCreate ==
    /\ pc \in {"c_getsize", "c_loop_get", "c_waitevents", "c_waitidle", "c_cleanup"} =>
           (swap_chain_.live /\ swap_chain_image_views_ = swap_chain_.count)
    /\ pc \in {"c_waitidle", "c_cleanup", "c_create"} => ctx_size # 0
    /\ pc \in {"c_cleanup", "c_create"} => DeviceIdle
    /\ pc = "c_create" => (~swap_chain_.live /\ swap_chain_image_views_ = 0)
    /\ pc = "r_rebuild" =>
           (swap_chain_.live /\ swap_chain_image_views_ = swap_chain_.count)

\* The old swap chain is destroyed after a wait for the window to be restored,
\* and the new one is about to be created.
C19_Witness ==
    /\ pc = "c_create"
    /\ ~swap_chain_.live
    /\ ctx_size # 0
    /\ framebuffer_resized_
    /\ recreate_from = "acquire"

\* ---- C20
\* The call that is returning and the one before it were both served by the
\* driver, and what the surface reported and the nonzero framebuffer size
\* were the same at both swap-chain creations.
C20_TwoCallsSameInputs ==
    /\ pc = "c_return"
    /\ rc_prev.valid
    /\ rc_prev.driver_ok
    /\ rc_cur.driver_ok
    /\ rc_cur.support = rc_prev.support
    /\ rc_cur.size = rc_prev.size
    /\ rc_cur.size # 0

\* C20: two consecutive recreateSwapChain calls with unchanged surface
\* capabilities and an unchanged nonzero framebuffer size both succeed and
\* give swap chains of the same image count, image format and extent; every
\* call starts its creation with no swap chain and no image view alive and,
\* when it succeeds, ends with one swap chain and one image view per image.
C20_RecreateIdempotent ==
    /\ pc = "c_create" => (~swap_chain_.live /\ swap_chain_image_views_ = 0)
    /\ (pc = "c_return" /\ rc_cur.driver_ok) =>
          /\ rc_cur.result
          /\ swap_chain_.live
          /\ swap_chain_image_views_ = swap_chain_.count
          /\ DOMAIN images = 0 .. (swap_chain_.count - 1)
    /\ C20_TwoCallsSameInputs =>
          /\ rc_prev.result
          /\ rc_cur.result
          /\ swap_chain_.count = rc_prev.count
          /\ swap_chain_image_format_ = rc_prev.format
          /\ swap_chain_.extent = rc_prev.extent

\* A second call with unchanged inputs returns with the capped image count
\* and the fallback format, and a call had waited for the window to be restored.
C20_Witness ==
    /\ C20_TwoCallsSameInputs
    /\ rc_cur.support.maxImageCount = 1
    /\ swap_chain_.count = 1
    /\ framebuffer_resized_
    /\ swap_chain_image_format_ = "R8G8B8A8Unorm"

\* ---- C21
\* The drawFrame call in progress (or just returned) got out-of-date at acquire,
\* or out-of-date or suboptimal at present.
C21_Transient ==
    \/ acq_result = "out_of_date"
    \/ pres_result \in {"out_of_date", "suboptimal"}

C23_RebuildFailureReported ==
    /\ InTrace("rebuild_failed") => pc \in {"r_rebuild", "unwind"}
    /\ pc = "record" =>
          /\ swap_chain_.live
          /\ depth_live
          /\ pipelines_live
          /\ swap_chain_framebuffers_.count = swap_chain_.count

\* ---- C24
C24_Order ==
    << "createInstance", "setupDebugMessenger", "createSurface",
       "pickPhysicalDevice", "createLogicalDevice", "createSwapChain",
       "createImageViews", "createCommandPool" >>

\* The step has produced what it is there to produce.
C24_Succeeded(step) ==
    CASE step = "createInstance" -> vk_ctx.instance_
      [] step = "setupDebugMessenger" ->
             vk_ctx.enable_validation_layers_ => vk_ctx.debug_messenger_
      [] step = "createSurface" -> vk_ctx.surface_
      [] step = "pickPhysicalDevice" -> vk_ctx.physical_device_ # NoDevice
      [] step = "createLogicalDevice" -> vk_ctx.device_
      [] step = "createSwapChain" -> vk_ctx.swap_chain_
      [] step = "createImageViews" -> vk_ctx.image_views
      [] step = "createCommandPool" -> vk_ctx.command_pool_

C24_StepsInOrder ==
    /\ Len(ci_steps) <= Len(C24_Order)
    /\ \A k \in 1 .. Len(ci_steps) : ci_steps[k] = C24_Order[k]
    /\ \A k \in 1 .. (Len(ci_steps) - 1) : C24_Succeeded(ci_steps[k])

C25_FailedInitTearsDownCleanly ==
    ri_ret \in {"false", "thrown"} => (faults = {} /\ init_pc # "crashed")

\* ---- C26
\* The device meets the stated requirements: every required extension, at
\* least one surface format and one present mode, a family with graphics
\* capability and a family with present support.
C26_Qualifies(device) ==
    /\ device.extensions
    /\ device.formats
    /\ device.present_modes
    /\ \E k \in 1 .. Len(device.queue_families) : device.queue_families[k].graphics
    /\ \E k \in 1 .. Len(device.queue_families) : device.queue_families[k].present

C26_HasGraphics(index) ==
    /\ index + 1 \in 1 .. Len(vk_ctx.physical_device_.queue_families)
    /\ vk_ctx.physical_device_.queue_families[index + 1].graphics

C26_HasPresent(index) ==
    /\ index + 1 \in 1 .. Len(vk_ctx.physical_device_.queue_families)
    /\ vk_ctx.physical_device_.queue_families[index + 1].present

\* C26: while pickPhysicalDevice and the later steps run, every device the loop
\* passed over before the last examined one did not qualify; the last examined
\* device was selected exactly when it qualifies, and the loop goes on only
\* after a device that does not; the step has failed when the list was empty
\* or all its devices were examined without one qualifying; the queue families
\* used for the device queues and for the command pool have the graphics,
\* respectively present, capability.
C26_FirstQualifyingDeviceSelected ==
    init_pc \notin {"off", "exit"} =>
        /\ \A k \in 1 .. (Len(examined) - 1) : ~examined[k]
        /\ Len(examined) = dev_i
        /\ dev_i > 0 =>
               /\ examined[dev_i] = C26_Qualifies(dev_cur)
               /\ (vk_ctx.physical_device_ = dev_cur) = C26_Qualifies(dev_cur)
               /\ ~C26_Qualifies(dev_cur) => vk_ctx.physical_device_ = NoDevice
               /\ init_pc = "pick_loop" => ~C26_Qualifies(dev_cur)
        /\ (Len(ci_steps) = 4 /\ init_pc # "pick_loop"
                /\ vk_ctx.physical_device_ = NoDevice) => ci_ret \in {"false", "thrown"}
        /\ vk_ctx.device_ =>
               /\ C26_HasGraphics(vk_ctx.graphics_queue_)
               /\ C26_HasPresent(vk_ctx.present_queue_)
        /\ vk_ctx.pool_family # NoIndex => C26_HasGraphics(vk_ctx.pool_family)

\* C26 witness: the first device was passed over, the second was selected, its
\* graphics and present families differ, and the command pool exists.
C26_Witness ==
    /\ dev_i = 2
    /\ examined = << FALSE, TRUE >>
    /\ vk_ctx.command_pool_
    /\ vk_ctx.graphics_queue_ # vk_ctx.present_queue_

\* ---- C27
\* C27 (as stated): once a recreation step or a teardown of the owner has
\* finished, the image is live exactly when its memory is.
C27_PairLivesAndDiesTogether ==
    (up_kind \in {"recreateDepth", "cleanup"} /\ i_pc \in {"true", "false", "released"})
        => ((image_.image = "live") <=> (image_.memory = "live"))

\* ---- C28
C28_DestroyStep ==
    \/ sync_live /\ ~sync_live'
    \/ overlay_live /\ ~overlay_live'

C28_SyncStep ==
    /\ sync_live' # sync_live => (pc = "cleanup_destroy" /\ ~sync_live')
    /\ C28_DestroyStep => DeviceIdle

\* C28 (as stated): the per-slot semaphores and fences exist from construction,
\* no recreation step touches them, and they go only in the destroy step of the
\* teardown; whenever the teardown destroys them or the overlay, the device is
\* idle: no submission and no present request is outstanding.
C28_DestroyOnlyWhenIdle == [][C28_SyncStep]_vars

\* ---- C29
C29_FrameSteps ==
    << "wait", "acquire", "update_uniforms", "fence_reset", "cmd_reset",
       "record", "end", "submit", "present" >>

\* C29: in a drawFrame call whose acquire gave an image, the steps performed
\* so far are the start of: fence wait, acquire, (uniform update,) fence reset,
\* command-buffer reset, recording, end of recording, submission, present, each
\* at most once; once the call has gone past its present without raising, all
\* of them have happened; and when a drawFrame call starts, the command buffer
\* of its slot is not being recorded.
C29_FrameStepsOnceInOrder ==
    /\ acq_result = "acquired" =>
          /\ \A j \in 1 .. Len(trace) :
                j <= Len(C29_FrameSteps) => trace[j] = C29_FrameSteps[j]
          /\ \A j \in 1 .. Len(C29_FrameSteps) : Count(C29_FrameSteps[j]) <= 1
          /\ pc \in RecreatePcs \cup {"advance", "poll"} =>
                Len(trace) >= Len(C29_FrameSteps)
    /\ pc = "wait_fence" => command_buffers_[current_frame_].st # "recording"

\* C29 witness: the second drawFrame call has acquired, submitted, presented
\* with success and returned; the slot of the next call holds the command
\* buffer the first call recorded.
C29_Witness ==
    /\ pc = "poll"
    /\ frameNo = 2
    /\ acq_result = "acquired"
    /\ pres_result = "success"
    /\ InTrace("advance")
    /\ command_buffers_[current_frame_].st # "initial"

\* ---- C30
C30_Transitions ==
    << << "Undefined", "TransferDstOptimal" >>,
       << "TransferDstOptimal", "ShaderReadOnlyOptimal" >> >>

\* C30: in a texture or cubemap upload the layout transitions performed are
\* the start of undefined -> transfer-destination, transfer-destination ->
\* shader-read-only, so each happens at most once; every buffer-to-image copy
\* was made while the image was in the transfer-destination layout; the k-th
\* copy went to layer k - 1, so no layer is copied twice, and once the image is
\* shader-read-only the texture has its one copy and the cubemap one copy in
\* each of its six layers; the view and sampler are in a descriptor set only
\* after both transitions, with the view and the sampler created.
C30_CopiesBetweenTransitions ==
    up_kind \in {"texture", "cubemap"} =>
        /\ Len(image_.transitions) <= 2
        /\ \A j \in 1 .. Len(image_.transitions) :
              image_.transitions[j] = C30_Transitions[j]
        /\ \A j \in 1 .. Len(image_.copies) :
              /\ image_.copies[j].layout = "TransferDstOptimal"
              /\ image_.copies[j].layer = j - 1
        /\ Len(image_.copies) <= (IF up_kind = "cubemap" THEN CubeFaces ELSE 1)
        /\ (image_.layout = "ShaderReadOnlyOptimal" \/ up_state = "true") =>
              Len(image_.copies) = (IF up_kind = "cubemap" THEN CubeFaces ELSE 1)
        /\ image_.descriptor =>
              /\ image_.transitions = C30_Transitions
              /\ image_.layout = "ShaderReadOnlyOptimal"
              /\ image_.view /\ image_.sampler

\* C30 witness: the cubemap is in a descriptor set with six copies made.
C30_Witness ==
    /\ up_kind = "cubemap"
    /\ image_.descriptor
    /\ Len(image_.copies) = CubeFaces
\* ---- C31
\* C31: teardown destroys children before parents. Whenever the logical
\* device has been destroyed, no resource owner (overlay, mesh, shaders,
\* material, texture, skybox) and no renderer-owned device object is still
\* live, and each that was destroyed was destroyed earlier; the same holds for
\* image views against the swap chain, swap chain and command pool against the
\* device, and debug messenger, surface and device against the instance.
C31_Pos(object) ==
    CHOOSE j \in 1 .. Len(destroyed) : destroyed[j] = object

C31_Destroyed(object) == \E j \in 1 .. Len(destroyed) : destroyed[j] = object

C31_Live(object) == MemberSet(object) /\ ~C31_Destroyed(object)

C31_ChildParent ==
    { << c, "device_" >> : c \in ResourceOwners \cup RendererDeviceObjects }
    \cup { << "image_views", "swap_chain_" >>, << "swap_chain_", "device_" >>,
           << "command_pool_", "device_" >>, << "debug_messenger_", "instance_" >>,
           << "surface_", "instance_" >>, << "device_", "instance_" >> }

C32_InWaitLoop == pc \in {"c_loop_get", "c_waitevents"}

C32_MinimizedRecreateReturns ==
    (C32_InWaitLoop /\ fb_size # 0) ~> (~C32_InWaitLoop \/ fb_size = 0)
\* ---- C33
\* C33: the CPU writes the uniform buffers (the one UBO of the material and the
\* one of the skybox, bound by every frame's command buffer) only when no
\* submission is outstanding on the graphics queue.
C33_NoWriteWhileGpuReads ==
    pc = "update_uniforms" => queue = << >>
\* ---- C34
\* C34: on each per-slot binary semaphore signals and waits alternate. A step
\* that hands image_available_semaphores_[s] to an acquire finds it without a
\* pending or unconsumed signal; a step in which a submission signals
\* render_finished_semaphores_[s] finds it unsignaled and finds no present
\* request of an earlier frame queued that waits on it.
C34_AcquireStep ==
    \A s \in Slots :
        (/\ image_available_semaphores_'[s].st = "pending"
         /\ image_available_semaphores_'[s] # image_available_semaphores_[s])
        => image_available_semaphores_[s].st = "unsignaled"

C34_SignalStep ==
    \A s \in Slots :
        (/\ render_finished_semaphores_'[s].st = "signaled"
         /\ render_finished_semaphores_'[s] # render_finished_semaphores_[s])
        => /\ render_finished_semaphores_[s].st = "unsignaled"
           /\ ~\E j \in 1 .. Len(presentQ) :
                 /\ presentQ[j].waitSem = s
                 /\ presentQ[j].frame < render_finished_semaphores_'[s].frame

\* The acquire half alone (it holds: the fence wait of slot s follows the
\* submission that consumed the signal).
C34_AcquireAlternates == [][C34_AcquireStep]_vars

C34_SemaphoresAlternate == [][C34_AcquireStep /\ C34_SignalStep]_vars
\* ---- C35
\* C35: with every submission eventually completing, the fence wait at the
\* start of every drawFrame call eventually returns; an unsignaled fence
\* always has a queued submission that signals it, or belongs to the slot of a
\* drawFrame call that has reset it and is on its way to submit.
C35_FenceHasSubmission ==
    \A s \in Slots :
        ~in_flight_fences_[s] =>
            \/ \E k \in 1 .. Len(queue) : queue[k].fence = s
            \/ s = current_frame_ /\ pc \in {"reset_cmd", "record", "end_cmd", "submit"}

C35_FenceWaitReturns ==
    /\ []C35_FenceHasSubmission
    /\ (pc = "wait_fence") ~> (pc # "wait_fence")

\* The third drawFrame call is blocked in the fence wait of its slot: the
\* submission of the first call has not completed.
C35_Witness ==
    /\ pc = "wait_fence"
    /\ frameNo = 3
    /\ ~in_flight_fences_[current_frame_]
\* ---- C36
\* C36: a step in which a drawFrame call that recreated the swap chain (after
\* acquire or after present) returns to the main loop ends with
\* framebuffer_resized_ false.
C36_ReturnStep ==
    (pc # "poll" /\ pc' = "poll" /\ \E j \in 1 .. Len(trace') : trace'[j] = "rebuild")
    => ~framebuffer_resized_'

C36_FlagClearAfterRecreate == [][C36_ReturnStep]_vars
\* ---- C37
\* C37: no Vulkan handle is destroyed more than once: the cleanup of an owner
\* never calls destroyBuffer on a buffer that createBuffer destroyed on its
\* failure path, and a second cleanup destroys nothing.
C37_NoHandleDestroyedTwice == faults = {}
\* ---- C38
\* C38: a recreation destroys every object it replaces. Between drawFrame
\* calls the live pipeline layouts are the two made by initialization and
\* createDefaultSkyBox, the pipelines and depth resources are live once, and
\* there is one framebuffer and one image view per image of the one live swap
\* chain.
C38_RecreationReplacesObjects ==
    pc = "poll" =>
        /\ pipeline_layouts = 2
        /\ pipelines_live
        /\ depth_live
        /\ swap_chain_.live
        /\ swap_chain_image_views_ = swap_chain_.count
        /\ swap_chain_framebuffers_.count = swap_chain_.count
====
